---------------------------- MODULE Spec2Model ----------------------------
(***************************************************************************)
(* Model of the text-understanding core of the desktop application:        *)
(* desktop_app/parsing/code_parser.py (CodeParser) and                     *)
(* desktop_app/parsing/problem_parser.py (ProblemParser).                  *)
(*                                                                         *)
(* Texts are TLA+ strings, read one character at a time.  The regular      *)
(* expressions of the source are kept as data (a small syntax tree per     *)
(* pattern) and run by a matcher that follows the semantics of Python's    *)
(* re module: leftmost match, alternatives in order, greedy and lazy       *)
(* repetition, capture groups, lookahead.                                  *)
(***************************************************************************)
EXTENDS Integers, Sequences, FiniteSets, TLC

(***************************************************************************)
(* Characters and Python's str helpers                                     *)
(***************************************************************************)
Lower == {"a","b","c","d","e","f","g","h","i","j","k","l","m",
          "n","o","p","q","r","s","t","u","v","w","x","y","z"}
Upper == {"A","B","C","D","E","F","G","H","I","J","K","L","M",
          "N","O","P","Q","R","S","T","U","V","W","X","Y","Z"}
Digit == {"0","1","2","3","4","5","6","7","8","9"}
\* \w, \s of Python's re on str patterns (ASCII part)
WordCh == Lower \cup Upper \cup Digit \cup {"_"}
SpaceCh == {" ", "\t", "\n", "\r", "\f"}

\* Python's None for an optional string: <<>>; a present value v: <<v>>
None == <<>>
Some(v) == <<v>>

\* TLC computes the argument of an operator when the operator first uses it.
\* A test on Evaluated(v) has v computed before the operators below the test
\* are entered, which keeps the evaluation of long pipelines shallow.
Evaluated(v) == v = v

Min(set) == CHOOSE x \in set : \A y \in set : x <= y
Max(set) == 0 - Min({0 - x : x \in set})

\* s[i] (1-based)
Ch(s, i) == SubSeq(s, i, i)

\* s[i:j] with 1-based i and exclusive j
Slice(s, i, j) == SubSeq(s, i, j - 1)

\* str.strip()
Strip(s) ==
    IF s = "" THEN ""
    ELSE LET keep == {k \in 1..Len(s) : Ch(s, k) \notin SpaceCh}
         IN  IF keep = {} THEN "" ELSE SubSeq(s, Min(keep), Max(keep))

\* The positions at which sub occurs in s
Occurrences(s, sub) ==
    {i \in 1..(Len(s) - Len(sub) + 1) : SubSeq(s, i, i + Len(sub) - 1) = sub}

\* sub in s (Python's substring test)
Contains(s, sub) == Occurrences(s, sub) # {}

\* str.replace(old, new): the occurrences of old, left to right, none
\* overlapping the one replaced before it
RECURSIVE ReplaceFrom(_, _, _, _)
ReplaceFrom(s, old, new, i) ==
    LET occ == {p \in Occurrences(s, old) : p >= i}
    IN  IF occ = {} THEN Slice(s, i, Len(s) + 1)
        ELSE Slice(s, i, Min(occ)) \o new \o ReplaceFrom(s, old, new, Min(occ) + Len(old))

Replace(s, old, new) == IF s = "" THEN "" ELSE ReplaceFrom(s, old, new, 1)

\* str.split(sep) for a one-character separator, maxsplit = limit (-1: no limit)
RECURSIVE SplitFrom(_, _, _, _)
SplitFrom(s, sep, i, limit) ==
    LET occ == {p \in i..Len(s) : Ch(s, p) = sep}
    IN  IF occ = {} \/ limit = 0 THEN << Slice(s, i, Len(s) + 1) >>
        ELSE << Slice(s, i, Min(occ)) >> \o SplitFrom(s, sep, Min(occ) + 1, limit - 1)

Split(s, sep) == IF s = "" THEN <<"">> ELSE SplitFrom(s, sep, 1, -1)
SplitN(s, sep, limit) == IF s = "" THEN <<"">> ELSE SplitFrom(s, sep, 1, limit)

(***************************************************************************)
(* Regular expressions (Python re): syntax                                 *)
(***************************************************************************)
Lit(str)   == [t |-> "lit", s |-> str]            \* a literal text
Cls(set)   == [t |-> "cls", c |-> set]            \* [...]
NCls(set)  == [t |-> "ncls", c |-> set]           \* [^...]
Dot        == NCls({"\n"})                        \* .  (without DOTALL)
DotAll     == NCls({})                            \* .  (with DOTALL)
Cat(rs)    == [t |-> "cat", r |-> rs]             \* r1 r2 ... rn
Alt(rs)    == [t |-> "alt", r |-> rs]             \* r1 | r2 | ... | rn
Star(r)    == [t |-> "star", r |-> r]             \* r*   (greedy)
LazyStar(r) == [t |-> "lazystar", r |-> r]        \* r*?
Plus(r)    == Cat(<<r, Star(r)>>)                 \* r+
Opt(r)     == [t |-> "opt", r |-> r]              \* r?   (greedy)
Grp(n, r)  == Cat(<<[t |-> "open", n |-> n], r, [t |-> "close", n |-> n]>>)
Look(r)    == [t |-> "look", r |-> r]             \* (?=r)
Bol        == [t |-> "bol"]                       \* ^  (without MULTILINE)
BolM       == [t |-> "bolm"]                      \* ^  (with MULTILINE)
Eol        == [t |-> "eol"]                       \* $  (without MULTILINE)

W  == Cls(WordCh)                                 \* \w
S  == Cls(SpaceCh)                                \* \s
D  == Cls(Digit)                                  \* \d
Ws == Plus(W)                                     \* \w+
S0 == Star(S)                                     \* \s*
S1 == Plus(S)                                     \* \s+

(***************************************************************************)
(* Regular expressions: the matcher                                        *)
(*                                                                         *)
(* Python's matcher backtracks: at every choice (an alternative, one more  *)
(* repetition or not) it takes the first option, in the pattern's order of *)
(* preference, from which the rest of the pattern can still match.  Pre    *)
(* computes "can still match" (the positions from which a pattern matches  *)
(* and ends in a given set of positions); Walk then follows the preferred  *)
(* options, which gives the match and the groups Python returns.           *)
(***************************************************************************)
\* number of capture groups kept per match
NGroups == 3

NoCaps == [n \in 1..NGroups |-> <<0, 0>>]
Fail == [ok |-> FALSE, b |-> 0, e |-> 0, caps |-> NoCaps]

Positions(s) == 1..(Len(s) + 1)

IsCharClass(r) == r.t \in {"cls", "ncls"}

\* character k of s is in the class r
ClassOk(r, s, k) == IF r.t = "cls" THEN Ch(s, k) \in r.c ELSE Ch(s, k) \notin r.c

\* Where the run of characters of class r that starts at position i stops: the
\* first position from i on whose character is not in the class, or the end
RunEnd(r, s, i) ==
    CHOOSE p \in i..(Len(s) + 1) : p = Len(s) + 1 \/ ~ClassOk(r, s, p)

\* The positions from which a run of characters of class r reaches a position of F
StarPre(r, s, F) ==
    LET starts == {1} \cup {k + 1 : k \in {k \in 1..Len(s) : ~ClassOk(r, s, k)}}
    IN  UNION { LET reach == {j \in b..RunEnd(r, s, b) : j \in F}
                IN  IF reach = {} THEN {} ELSE b..Max(reach) : b \in starts }

\* The positions j of F that a run of characters of class r reaches from i
StarEnds(r, s, i, F) ==
    LET stop == RunEnd(r, s, i)
    IN  {j \in F : i <= j /\ j <= stop}

RECURSIVE Pre(_, _, _)
RECURSIVE StarFix(_, _, _)

\* The two halves of a concatenation of two or more patterns
CatHead(r) == Cat(SubSeq(r.r, 1, Len(r.r) \div 2))
CatTail(r) == Cat(SubSeq(r.r, Len(r.r) \div 2 + 1, Len(r.r)))

\* The positions i such that r matches s[i:j] for some j in F
Pre(r, s, F) ==
    IF F = {} THEN {} ELSE
    CASE r.t = "lit" ->
           {j - Len(r.s) : j \in {j \in F : j > Len(r.s) /\ SubSeq(s, j - Len(r.s), j - 1) = r.s}}
      [] IsCharClass(r) ->
           {j - 1 : j \in {j \in F : j > 1 /\ ClassOk(r, s, j - 1)}}
      [] r.t = "cat" ->
           IF Len(r.r) = 0 THEN F
           ELSE IF Len(r.r) = 1 THEN Pre(r.r[1], s, F)
           ELSE Pre(CatHead(r), s, Pre(CatTail(r), s, F))
      [] r.t = "alt" -> UNION {Pre(r.r[n], s, F) : n \in 1..Len(r.r)}
      [] r.t \in {"star", "lazystar"} ->
           IF IsCharClass(r.r) THEN StarPre(r.r, s, F) ELSE StarFix(r.r, s, F)
      [] r.t = "opt" -> F \cup Pre(r.r, s, F)
      [] r.t \in {"open", "close"} -> F
      [] r.t = "look" -> F \cap Pre(r.r, s, Positions(s))
      [] r.t = "bol" -> F \cap {1}
      [] r.t = "bolm" -> {i \in F : i = 1 \/ Ch(s, i - 1) = "\n"}
      [] r.t = "eol" ->
           {i \in F : i = Len(s) + 1 \/ (i = Len(s) /\ Ch(s, i) = "\n")}

\* The positions from which zero or more repetitions of r reach a position of
\* X: X grown by Pre (to Y) until it grows no more
StarGrow(r, s, X, Y) == IF Y = X THEN X ELSE StarFix(r, s, Y)
StarFix(r, s, X) == StarGrow(r, s, X, X \cup Pre(r, s, X))

\* From position i (one of Pre(r, s, F)): where the match of r that Python
\* prefers ends, and the groups it closes
RECURSIVE Walk(_, _, _, _, _)

\* A match that takes no character
Stay(i, caps) == [e |-> i, caps |-> caps]

\* r from where the match w of what stands before it ended
WalkOn(r, s, F, w) == IF Evaluated(w) THEN Walk(r, s, w.e, F, w.caps) ELSE w

\* One more repetition of r.r if the rest can still match after it (again:
\* the positions, other than i, from which it can)
WalkStar(r, s, i, F, caps, again) ==
    IF i \in Pre(r.r, s, again) THEN WalkOn(r, s, F, Walk(r.r, s, i, again, caps))
    ELSE Stay(i, caps)

Walk(r, s, i, F, caps) ==
    CASE r.t = "lit" -> [e |-> i + Len(r.s), caps |-> caps]
      [] IsCharClass(r) -> [e |-> i + 1, caps |-> caps]
      [] r.t = "cat" ->
           IF Len(r.r) = 0 THEN Stay(i, caps)
           ELSE IF Len(r.r) = 1 THEN Walk(r.r[1], s, i, F, caps)
           ELSE WalkOn(CatTail(r), s, F,
                       Walk(CatHead(r), s, i, Pre(CatTail(r), s, F), caps))
      [] r.t = "alt" ->
           Walk(r.r[Min({n \in 1..Len(r.r) : i \in Pre(r.r[n], s, F)})], s, i, F, caps)
      [] r.t = "star" ->
           IF IsCharClass(r.r) THEN [e |-> Max(StarEnds(r.r, s, i, F)), caps |-> caps]
           ELSE WalkStar(r, s, i, F, caps, Pre(r, s, F) \ {i})
      [] r.t = "lazystar" ->
           IF IsCharClass(r.r) THEN [e |-> Min(StarEnds(r.r, s, i, F)), caps |-> caps]
           ELSE IF i \in F THEN Stay(i, caps)
           ELSE WalkOn(r, s, F, Walk(r.r, s, i, Pre(r, s, F) \ {i}, caps))
      [] r.t = "opt" ->
           IF i \in Pre(r.r, s, F) THEN Walk(r.r, s, i, F, caps) ELSE Stay(i, caps)
      [] r.t = "open" -> [e |-> i, caps |-> [caps EXCEPT ![r.n] = <<i, 0>>]]
      [] r.t = "close" -> [e |-> i, caps |-> [caps EXCEPT ![r.n] = <<caps[r.n][1], i>>]]
      [] r.t \in {"look", "bol", "bolm", "eol"} -> Stay(i, caps)

\* The match object: where the match begins, and where it ends and its groups
MatchOf(b, w) == [ok |-> TRUE, b |-> b, e |-> w.e, caps |-> w.caps]

\* re.match(r, s): a match starting at position i
MatchAt(r, s, i) ==
    IF i > Len(s) + 1 \/ i \notin Pre(r, s, Positions(s)) THEN Fail
    ELSE MatchOf(i, Walk(r, s, i, Positions(s), NoCaps))

\* The match from the leftmost of the positions starts
FirstMatch(r, s, starts) ==
    IF starts = {} THEN Fail
    ELSE MatchOf(Min(starts), Walk(r, s, Min(starts), Positions(s), NoCaps))

\* re.search(r, s) from position i on: the leftmost match
SearchFrom(r, s, i) ==
    IF i > Len(s) + 1 THEN Fail
    ELSE FirstMatch(r, s, {b \in Pre(r, s, Positions(s)) : b >= i})

Search(r, s) == SearchFrom(r, s, 1)

\* m.group(0)
Group0(s, m) == Slice(s, m.b, m.e)

\* m.group(n): None when the group took no part in the match
Group(s, m, n) ==
    IF m.caps[n][1] = 0 THEN None ELSE Some(Slice(s, m.caps[n][1], m.caps[n][2]))

\* m.group(n) where the source treats None and '' alike
GroupStr(s, m, n) ==
    IF m.caps[n][1] = 0 THEN "" ELSE Slice(s, m.caps[n][1], m.caps[n][2])

\* re.finditer(r, s): the non-overlapping matches, left to right
RECURSIVE FindIterFrom(_, _, _)
FindIterOn(r, s, m) ==
    IF ~m.ok THEN <<>>
    ELSE <<m>> \o FindIterFrom(r, s, IF m.e = m.b THEN m.e + 1 ELSE m.e)
FindIterFrom(r, s, i) == FindIterOn(r, s, SearchFrom(r, s, i))

FindIter(r, s) == FindIterFrom(r, s, 1)

\* A replacement template of re.sub: literal pieces and group references \n
TLit(str) == [t |-> "s", s |-> str, n |-> 0]
TGrp(n)   == [t |-> "g", s |-> "", n |-> n]

RECURSIVE Expand(_, _, _)
Expand(tmpl, s, m) ==
    IF tmpl = <<>> THEN ""
    ELSE LET h == Head(tmpl)
         IN  (IF h.t = "s" THEN h.s ELSE GroupStr(s, m, h.n)) \o Expand(Tail(tmpl), s, m)

\* re.sub(r, tmpl, s, count): count = 0 replaces every match; done counts the
\* replacements made so far, m is the next match
RECURSIVE SubFrom(_, _, _, _, _, _)
SubOn(r, tmpl, s, i, count, done, m) ==
    IF ~m.ok THEN Slice(s, i, Len(s) + 1)
    ELSE Slice(s, i, m.b) \o Expand(tmpl, s, m) \o
         (IF m.e > m.b THEN SubFrom(r, tmpl, s, m.e, count, done + 1)
          ELSE IF m.e > Len(s) THEN ""
          ELSE Ch(s, m.e) \o SubFrom(r, tmpl, s, m.e + 1, count, done + 1))
SubFrom(r, tmpl, s, i, count, done) ==
    IF count # 0 /\ done = count THEN Slice(s, i, Len(s) + 1)
    ELSE SubOn(r, tmpl, s, i, count, done, SearchFrom(r, s, i))

Sub(r, tmpl, s) == SubFrom(r, tmpl, s, 1, 0, 0)
SubCount(r, tmpl, s, count) == SubFrom(r, tmpl, s, 1, count, 0)

\* re.split(r, s) for a pattern without groups that matches no empty text
RECURSIVE ReSplitFrom(_, _, _)
ReSplitOn(r, s, i, m) ==
    IF ~m.ok \/ m.e = m.b THEN << Slice(s, i, Len(s) + 1) >>
    ELSE << Slice(s, i, m.b) >> \o ReSplitFrom(r, s, m.e)
ReSplitFrom(r, s, i) == ReSplitOn(r, s, i, SearchFrom(r, s, i))

ReSplit(r, s) == ReSplitFrom(r, s, 1)

(***************************************************************************)
(* CodeParser (desktop_app/parsing/code_parser.py)                         *)
(***************************************************************************)
\* A faulty variant of EmptyResult: 'void' for the return type not found
EmptyResultVoid ==
    [function_signature |-> "", function_name |-> "", parameters |-> <<>>,
     return_type |-> "void", class_context |-> ""]

\* The record parse returns; language is added by parse itself
EmptyResult ==
    [function_signature |-> "", function_name |-> "", parameters |-> <<>>,
     return_type |-> "", class_context |-> ""]

Param(name, type, default) == [name |-> name, type |-> type, default |-> default]

\* (\w)([+\-*/=<>])(\w)
OperatorRe == Cat(<<Grp(1, W), Grp(2, Cls({"+", "-", "*", "/", "=", "<", ">"})), Grp(3, W)>>)
\* ^\s*\d+\s+  (MULTILINE)
LineNumberRe == Cat(<<BolM, S0, Plus(D), S1>>)

\* _clean_code_text.  The first four replacements of the source rewrite
\* non-ASCII characters (curly quotes, en and em dashes) and leave the ASCII
\* texts of this model as they are.
CleanCodeText(code_text) ==
    LET t1 == Replace(code_text, "0bject", "Object")
        t2 == Replace(t1, "l.ist", "List")
        t3 == Replace(t2, "l.ist", "List")
        t4 == Replace(t3, "lnt", "int")
        t5 == Replace(t4, "retum", "return")
        t6 == Sub(OperatorRe, <<TGrp(1), TLit(" "), TGrp(2), TLit(" "), TGrp(3)>>, t5)
        t7 == Sub(LineNumberRe, <<>>, t6)
    IN  Strip(t7)

\* def\s+\w+\s*\(.*\)\s*:
PyDefRe == Cat(<<Lit("def"), S1, Ws, S0, Lit("("), Star(Dot), Lit(")"), S0, Lit(":")>>)
\* class\s+\w+\s*:
PyClassRe == Cat(<<Lit("class"), S1, Ws, S0, Lit(":")>>)
\* public\s+(static\s+)?(class|interface|enum)
JavaTypeRe ==
    Cat(<<Lit("public"), S1, Opt(Grp(1, Cat(<<Lit("static"), S1>>))),
          Grp(2, Alt(<<Lit("class"), Lit("interface"), Lit("enum")>>))>>)
\* (public|private|protected)\s+\w+\s+\w+\s*\(.*\)\s*\{
JavaMethodDetectRe ==
    Cat(<<Grp(1, Alt(<<Lit("public"), Lit("private"), Lit("protected")>>)),
          S1, Ws, S1, Ws, S0, Lit("("), Star(Dot), Lit(")"), S0, Lit("{")>>)
\* (int|void|bool|char|float|double|long|short|class|struct)\s+\w+\s*\(.*\)\s*\{
CppFuncDetectRe ==
    Cat(<<Grp(1, Alt(<<Lit("int"), Lit("void"), Lit("bool"), Lit("char"), Lit("float"),
                       Lit("double"), Lit("long"), Lit("short"), Lit("class"),
                       Lit("struct")>>)),
          S1, Ws, S0, Lit("("), Star(Dot), Lit(")"), S0, Lit("{")>>)
\* function\s+\w+\s*\(.*\)\s*\{
JsFuncDetectRe ==
    Cat(<<Lit("function"), S1, Ws, S0, Lit("("), Star(Dot), Lit(")"), S0, Lit("{")>>)
\* const\s+\w+\s*=   var\s+\w+\s*=   let\s+\w+\s*=
JsBindRe(kw) == Cat(<<Lit(kw), S1, Ws, S0, Lit("=")>>)

DetectLanguageCppFirst(code_text) ==
    IF Search(PyDefRe, code_text).ok \/ Search(PyClassRe, code_text).ok
    THEN "python"
    ELSE IF \/ Contains(code_text, "#include")
            \/ Search(CppFuncDetectRe, code_text).ok
            \/ Contains(code_text, "std::")
    THEN "cpp"
    ELSE IF Search(JavaTypeRe, code_text).ok \/ Search(JavaMethodDetectRe, code_text).ok
    THEN "java"
    ELSE IF \/ Search(JsFuncDetectRe, code_text).ok
            \/ Search(JsBindRe("const"), code_text).ok
            \/ Search(JsBindRe("var"), code_text).ok
            \/ Search(JsBindRe("let"), code_text).ok
    THEN "javascript"
    ELSE IF Contains(code_text, "{") /\ Contains(code_text, "}")
    THEN IF Contains(code_text, "public") \/ Contains(code_text, "private")
         THEN "java" ELSE "cpp"
    ELSE IF Contains(code_text, ":") /\ Contains(code_text, "def")
    THEN "python"
    ELSE "unknown"
DetectLanguage(code_text) ==
    IF Search(PyDefRe, code_text).ok \/ Search(PyClassRe, code_text).ok
    THEN "python"
    ELSE IF Search(JavaTypeRe, code_text).ok \/ Search(JavaMethodDetectRe, code_text).ok
    THEN "java"
    ELSE IF \/ Contains(code_text, "#include")
            \/ Search(CppFuncDetectRe, code_text).ok
            \/ Contains(code_text, "std::")
    THEN "cpp"
    ELSE IF \/ Search(JsFuncDetectRe, code_text).ok
            \/ Search(JsBindRe("const"), code_text).ok
            \/ Search(JsBindRe("var"), code_text).ok
            \/ Search(JsBindRe("let"), code_text).ok
    THEN "javascript"
    ELSE IF Contains(code_text, "{") /\ Contains(code_text, "}")
    THEN IF Contains(code_text, "public") \/ Contains(code_text, "private")
         THEN "java" ELSE "cpp"
    ELSE IF Contains(code_text, ":") /\ Contains(code_text, "def")
    THEN "python"
    ELSE "unknown"

\* class\s+(\w+)(?:\(.*\))?\s*:
PyClassCtxRe ==
    Cat(<<Lit("class"), S1, Grp(1, Ws), Opt(Cat(<<Lit("("), Star(Dot), Lit(")")>>)),
          S0, Lit(":")>>)
\* def\s+(\w+)\s*\((.*?)\)(?:\s*->\s*([^:]*))?\s*:
PyFuncRe ==
    Cat(<<Lit("def"), S1, Grp(1, Ws), S0, Lit("("), Grp(2, LazyStar(Dot)), Lit(")"),
          Opt(Cat(<<S0, Lit("->"), S0, Grp(3, Star(NCls({":"})))>>)), S0, Lit(":")>>)
\* (\w+)(?:\s*:\s*([^=]*))?(?:\s*=\s*(.*))?
PyParamRe ==
    Cat(<<Grp(1, Ws), Opt(Cat(<<S0, Lit(":"), S0, Grp(2, Star(NCls({"="})))>>)),
          Opt(Cat(<<S0, Lit("="), S0, Grp(3, Star(Dot))>>))>>)

\* (?:public|private|protected)?\s*class\s+(\w+)(?:\s+extends\s+\w+)?
\*     (?:\s+implements\s+[\w,\s]+)?\s*\{
JavaClassCtxRe ==
    Cat(<<Opt(Alt(<<Lit("public"), Lit("private"), Lit("protected")>>)), S0,
          Lit("class"), S1, Grp(1, Ws),
          Opt(Cat(<<S1, Lit("extends"), S1, Ws>>)),
          Opt(Cat(<<S1, Lit("implements"), S1, Plus(Cls(WordCh \cup {","} \cup SpaceCh))>>)),
          S0, Lit("{")>>)
\* (?:public|private|protected)?\s*(?:static\s+)?(\w+(?:<.*>)?)\s+(\w+)\s*\((.*?)\)\s*
\*     (?:throws\s+[\w,\s]+)?\s*\{
JavaMethodRe ==
    Cat(<<Opt(Alt(<<Lit("public"), Lit("private"), Lit("protected")>>)), S0,
          Opt(Cat(<<Lit("static"), S1>>)),
          Grp(1, Cat(<<Ws, Opt(Cat(<<Lit("<"), Star(Dot), Lit(">")>>))>>)),
          S1, Grp(2, Ws), S0, Lit("("), Grp(3, LazyStar(Dot)), Lit(")"), S0,
          Opt(Cat(<<Lit("throws"), S1, Plus(Cls(WordCh \cup {","} \cup SpaceCh))>>)),
          S0, Lit("{")>>)
\* ([\w<>[\],\s]+)\s+(\w+)
JavaParamRe ==
    Cat(<<Grp(1, Plus(Cls(WordCh \cup {"<", ">", "[", "]", ","} \cup SpaceCh))),
          S1, Grp(2, Ws)>>)

\* (?:class|struct)\s+(\w+)(?:\s*:\s*(?:public|private|protected)\s+\w+)?\s*\{
CppClassCtxRe ==
    Cat(<<Alt(<<Lit("class"), Lit("struct")>>), S1, Grp(1, Ws),
          Opt(Cat(<<S0, Lit(":"), S0,
                    Alt(<<Lit("public"), Lit("private"), Lit("protected")>>), S1, Ws>>)),
          S0, Lit("{")>>)
\* ([\w:]+(?:<.*>)?(?:\s+[\w:]+)*)\s+(\w+)\s*\((.*?)\)(?:\s*const)?\s*(?:noexcept)?\s*
\*     (?:->.*?)?\s*\{
CppFuncRe ==
    Cat(<<Grp(1, Cat(<<Plus(Cls(WordCh \cup {":"})),
                       Opt(Cat(<<Lit("<"), Star(Dot), Lit(">")>>)),
                       Star(Cat(<<S1, Plus(Cls(WordCh \cup {":"}))>>))>>)),
          S1, Grp(2, Ws), S0, Lit("("), Grp(3, LazyStar(Dot)), Lit(")"),
          Opt(Cat(<<S0, Lit("const")>>)), S0, Opt(Lit("noexcept")), S0,
          Opt(Cat(<<Lit("->"), LazyStar(Dot)>>)), S0, Lit("{")>>)
\* ([\w<>[\]:,\s&*]+)\s+(\w+)(?:\s*=\s*(.*))?
CppParamRe ==
    Cat(<<Grp(1, Plus(Cls(WordCh \cup {"<", ">", "[", "]", ":", ",", "&", "*"} \cup SpaceCh))),
          S1, Grp(2, Ws), Opt(Cat(<<S0, Lit("="), S0, Grp(3, Star(Dot))>>))>>)

\* The sub-pattern each language decomposes one parameter with
ParamRe(lang) ==
    CASE lang = "python" -> PyParamRe
      [] lang = "java" -> JavaParamRe
      [] lang = "cpp" -> CppParamRe

\* A faulty variant of PyParam: the type is taken as matched, not stripped
PyParamUnstripped(param, m) ==
    IF ~m.ok THEN <<>>
    ELSE << Param(GroupStr(param, m, 1), GroupStr(param, m, 2),
                  IF GroupStr(param, m, 3) # "" THEN Group(param, m, 3) ELSE None) >>

\* One written parameter (already stripped, not empty) as the list of records
\* it adds to result['parameters'], given the match m of the language's
\* sub-pattern: none when the sub-pattern does not match.
PyParam(param, m) ==
    IF ~m.ok THEN <<>>
    ELSE << Param(GroupStr(param, m, 1),
                  IF GroupStr(param, m, 2) # "" THEN Strip(GroupStr(param, m, 2)) ELSE "",
                  IF GroupStr(param, m, 3) # "" THEN Group(param, m, 3) ELSE None) >>

JavaParam(param, m) ==
    IF ~m.ok THEN <<>>
    ELSE << Param(GroupStr(param, m, 2), Strip(GroupStr(param, m, 1)), None) >>

CppParam(param, m) ==
    IF ~m.ok THEN <<>>
    ELSE << Param(GroupStr(param, m, 2), Strip(GroupStr(param, m, 1)),
                  IF GroupStr(param, m, 3) # "" THEN Group(param, m, 3) ELSE None) >>

ParamFrom(lang, param, m) ==
    CASE lang = "python" -> PyParam(param, m)
      [] lang = "java" -> JavaParam(param, m)
      [] lang = "cpp" -> CppParam(param, m)

\* param_match = re.match(<sub-pattern>, param) and what follows it
ParamOf(lang, param) == ParamFrom(lang, param, MatchAt(ParamRe(lang), param, 1))

\* A faulty variant of OpenBracket: the square bracket for every language
OpenBracketSquare(lang) == "["

\* The type brackets the scanner of each language counts
OpenBracket(lang) == IF lang = "python" THEN "[" ELSE "<"
CloseBracket(lang) == IF lang = "python" THEN "]" ELSE ">"

\* One pass of the body of `for char in params_text + ','` in _parse_python,
\* _parse_java and _parse_cpp, on the loop's state st = (depth, current_param,
\* parameters)
ScanStep(lang, st, char) ==
    IF char = "," /\ st.depth = 0
    THEN LET param == Strip(st.current_param)
         IN  [depth |-> st.depth, current_param |-> "",
              parameters |-> IF param # "" THEN st.parameters \o ParamOf(lang, param)
                             ELSE st.parameters]
    ELSE [depth |-> IF char = OpenBracket(lang) THEN st.depth + 1
                    ELSE IF char = CloseBracket(lang) THEN st.depth - 1
                    ELSE st.depth,
          current_param |-> st.current_param \o char,
          parameters |-> st.parameters]

\* The loop over the characters text[lo..hi], in order, from state st
RECURSIVE ScanLoop(_, _, _, _, _)
ScanLoop(lang, st, text, lo, hi) ==
    IF lo > hi THEN st
    ELSE IF lo = hi THEN ScanStep(lang, st, Ch(text, lo))
    ELSE LET mid == (lo + hi) \div 2
             half == ScanLoop(lang, st, text, lo, mid)
         IN  IF Evaluated(half) THEN ScanLoop(lang, half, text, mid + 1, hi) ELSE half

ScanStart == [depth |-> 0, current_param |-> "", parameters |-> <<>>]

\* The loop's state after the whole of params_text + ','
ScanParams(lang, params_text) ==
    ScanLoop(lang, ScanStart, params_text \o ",", 1, Len(params_text) + 1)

\* result['parameters'] for params_text (empty text: the loop is skipped)
ScanParameters(lang, params_text) ==
    IF params_text = "" THEN <<>> ELSE ScanParams(lang, params_text).parameters

\* class_match.group(0), '' without a match
ContextOf(code_text, class_match) ==
    IF class_match.ok THEN Group0(code_text, class_match) ELSE ""

ClassContext(re, code_text) == ContextOf(code_text, Search(re, code_text))

\* _parse_python after its two searches
PythonResult(code_text, ctx, func_match) ==
    IF ~func_match.ok THEN [EmptyResult EXCEPT !.class_context = ctx]
    ELSE [function_signature |-> Group0(code_text, func_match),
          function_name |-> GroupStr(code_text, func_match, 1),
          parameters |-> ScanParameters("python", GroupStr(code_text, func_match, 2)),
          return_type |-> IF GroupStr(code_text, func_match, 3) # ""
                          THEN Strip(GroupStr(code_text, func_match, 3)) ELSE "",
          class_context |-> ctx]

\* _parse_java and _parse_cpp after their two searches
TypedResult(lang, code_text, ctx, func_match) ==
    IF ~func_match.ok THEN [EmptyResult EXCEPT !.class_context = ctx]
    ELSE [function_signature |-> Group0(code_text, func_match),
          function_name |-> GroupStr(code_text, func_match, 2),
          parameters |-> ScanParameters(lang, GroupStr(code_text, func_match, 3)),
          return_type |-> GroupStr(code_text, func_match, 1),
          class_context |-> ctx]

ParsePython(code_text) ==
    PythonResult(code_text, ClassContext(PyClassCtxRe, code_text), Search(PyFuncRe, code_text))

ParseJava(code_text) ==
    TypedResult("java", code_text, ClassContext(JavaClassCtxRe, code_text),
                Search(JavaMethodRe, code_text))

ParseCpp(code_text) ==
    TypedResult("cpp", code_text, ClassContext(CppClassCtxRe, code_text),
                Search(CppFuncRe, code_text))

\* class\s+(\w+)(?:\s+extends\s+\w+)?\s*\{
JsClassCtxRe ==
    Cat(<<Lit("class"), S1, Grp(1, Ws), Opt(Cat(<<S1, Lit("extends"), S1, Ws>>)),
          S0, Lit("{")>>)
\* function\s+(\w+)\s*\((.*?)\)\s*\{
JsFuncRe ==
    Cat(<<Lit("function"), S1, Grp(1, Ws), S0, Lit("("), Grp(2, LazyStar(Dot)), Lit(")"),
          S0, Lit("{")>>)
\* (?:const|let|var)\s+(\w+)\s*=\s*(?:\((.*?)\)|(\w+))\s*=>\s*\{?
JsArrowRe ==
    Cat(<<Alt(<<Lit("const"), Lit("let"), Lit("var")>>), S1, Grp(1, Ws), S0, Lit("="), S0,
          Alt(<<Cat(<<Lit("("), Grp(2, LazyStar(Dot)), Lit(")")>>), Grp(3, Ws)>>),
          S0, Lit("=>"), S0, Opt(Lit("{"))>>)
\* (\w+)\s*\((.*?)\)\s*\{
JsMethodRe ==
    Cat(<<Grp(1, Ws), S0, Lit("("), Grp(2, LazyStar(Dot)), Lit(")"), S0, Lit("{")>>)
\* (?:function|def|void|int|bool|string|char|float|double)\s+(\w+)\s*\((.*?)\)
GenericFuncRe ==
    Cat(<<Alt(<<Lit("function"), Lit("def"), Lit("void"), Lit("int"), Lit("bool"),
                Lit("string"), Lit("char"), Lit("float"), Lit("double")>>),
          S1, Grp(1, Ws), S0, Lit("("), Grp(2, LazyStar(Dot)), Lit(")")>>)

\* The three function patterns of _parse_javascript in the order they are
\* tried, each with the number of its groups (len(func_match.groups()))
JsPatterns ==
    << [re |-> JsFuncRe, groups |-> 2],
       [re |-> JsArrowRe, groups |-> 3],
       [re |-> JsMethodRe, groups |-> 2] >>

\* func_match after the patterns from the k-th on: the first that matches,
\* or the failed search of the last
RECURSIVE JsFuncMatch(_, _)
JsTried(k, code_text, m) ==
    IF m.ok \/ k = Len(JsPatterns) THEN [m |-> m, groups |-> JsPatterns[k].groups]
    ELSE JsFuncMatch(k + 1, code_text)
JsFuncMatch(k, code_text) == JsTried(k, code_text, Search(JsPatterns[k].re, code_text))

\* One piece of params_text.split(',') in _parse_javascript
JsParam(piece) ==
    LET param == Strip(piece)
    IN  IF param = "" THEN <<>>
        ELSE IF Contains(param, "=")
        THEN LET nd == SplitN(param, "=", 1)
             IN  << Param(Strip(nd[1]), "", Some(Strip(nd[2]))) >>
        ELSE << Param(param, "", None) >>

\* One piece of params_text.split(',') in _parse_generic
GenericParam(piece) ==
    LET param == Strip(piece)
    IN  IF param = "" THEN <<>> ELSE << Param(param, "", None) >>

RECURSIVE JsParams(_)
JsParams(pieces) ==
    IF pieces = <<>> THEN <<>> ELSE JsParam(Head(pieces)) \o JsParams(Tail(pieces))

RECURSIVE GenericParams(_)
GenericParams(pieces) ==
    IF pieces = <<>> THEN <<>>
    ELSE GenericParam(Head(pieces)) \o GenericParams(Tail(pieces))

\* params_text of _parse_javascript
JsParamsText(code_text, fm) ==
    IF GroupStr(code_text, fm.m, 2) # "" THEN GroupStr(code_text, fm.m, 2)
    ELSE IF fm.groups > 2 THEN GroupStr(code_text, fm.m, 3) ELSE ""

\* _parse_javascript after its searches
JsResult(code_text, ctx, fm) ==
    IF ~fm.m.ok THEN [EmptyResult EXCEPT !.class_context = ctx]
    ELSE [function_signature |-> Group0(code_text, fm.m),
          function_name |-> GroupStr(code_text, fm.m, 1),
          parameters |-> IF JsParamsText(code_text, fm) # ""
                         THEN JsParams(Split(JsParamsText(code_text, fm), ","))
                         ELSE <<>>,
          return_type |-> "",
          class_context |-> ctx]

ParseJavascript(code_text) ==
    JsResult(code_text, ClassContext(JsClassCtxRe, code_text), JsFuncMatch(1, code_text))

\* _parse_generic after its search
GenericResult(code_text, func_match) ==
    IF ~func_match.ok THEN EmptyResult
    ELSE [function_signature |-> Group0(code_text, func_match),
          function_name |-> GroupStr(code_text, func_match, 1),
          parameters |-> IF GroupStr(code_text, func_match, 2) # ""
                         THEN GenericParams(Split(GroupStr(code_text, func_match, 2), ","))
                         ELSE <<>>,
          return_type |-> "",
          class_context |-> ""]

ParseGeneric(code_text) == GenericResult(code_text, Search(GenericFuncRe, code_text))

WithLanguage(result, language) ==
    [key \in DOMAIN result \cup {"language"} |->
        IF key = "language" THEN language ELSE result[key]]

\* The parser parse calls for the detected language
ParseAs(language, code_text) ==
    WithLanguage(CASE language = "python" -> ParsePython(code_text)
                   [] language = "java" -> ParseJava(code_text)
                   [] language = "cpp" -> ParseCpp(code_text)
                   [] language = "javascript" -> ParseJavascript(code_text)
                   [] OTHER -> ParseGeneric(code_text),
                 language)

\* parse once the text is cleaned
ParseCleaned(code_text) ==
    IF Evaluated(code_text) THEN ParseAs(DetectLanguage(code_text), code_text)
    ELSE EmptyResult

\* CodeParser.parse
CodeParse(raw_text) ==
    IF raw_text = "" THEN WithLanguage(EmptyResult, "unknown")
    ELSE ParseCleaned(CleanCodeText(raw_text))

(***************************************************************************)
(* ProblemParser (desktop_app/parsing/problem_parser.py)                   *)
(***************************************************************************)
\* The record parse returns for a text that is empty
EmptyProblemUntitled == [description |-> "", examples |-> <<>>, constraints |-> <<>>]
EmptyProblem == [title |-> "", description |-> "", examples |-> <<>>, constraints |-> <<>>]

Example(input, output, explanation) ==
    [input |-> input, output |-> output, explanation |-> explanation]

\* \n{3,}
BlankLinesRe == Cat(<<Lit("\n\n\n"), Star(Cls({"\n"}))>>)
\* Example\s*(\d)\s*:
ExampleNumberRe == Cat(<<Lit("Example"), S0, Grp(1, D), S0, Lit(":")>>)

\* _clean_text
CleanText(text) ==
    LET t1 == Sub(BlankLinesRe, <<TLit("\n\n")>>, text)
        t2 == Replace(t1, "Example|:", "Example:")
        t3 == Replace(t2, "Example |:", "Example:")
        t4 == Replace(t3, "Input|:", "Input:")
        t5 == Replace(t4, "Output|:", "Output:")
        t6 == Replace(t5, "Constraints|:", "Constraints:")
        t7 == Sub(ExampleNumberRe, <<TLit("Example "), TGrp(1), TLit(":")>>, t6)
    IN  Strip(t7)

\* (?:\d+\.\s*)?
NumberPrefix == Opt(Cat(<<Plus(D), Lit("."), S0>>))
\* (?:\n|$)
LineEnd == Alt(<<Lit("\n"), Eol>>)
\* ^(?:\d+\.\s*)?([A-Z][A-Za-z0-9\s\-]+)(?:\n|$)
TitleRe ==
    Cat(<<Bol, NumberPrefix,
          Grp(1, Cat(<<Cls(Upper),
                       Plus(Cls(Upper \cup Lower \cup Digit \cup SpaceCh \cup {"-"}))>>)),
          LineEnd>>)

UpperLetters == "ABCDEFGHIJKLMNOPQRSTUVWXYZ"
LowerLetters == "abcdefghijklmnopqrstuvwxyz"

\* str.lower() of one character
LowerCh(c) ==
    IF c \in Upper THEN Ch(LowerLetters, CHOOSE k \in 1..26 : Ch(UpperLetters, k) = c) ELSE c

\* str.lower() of s[lo..hi]
RECURSIVE LowerRange(_, _, _)
LowerRange(s, lo, hi) ==
    IF lo > hi THEN ""
    ELSE IF lo = hi THEN LowerCh(Ch(s, lo))
    ELSE LET mid == (lo + hi) \div 2
         IN  LowerRange(s, lo, mid) \o LowerRange(s, mid + 1, hi)

LowerStr(s) == IF s = "" THEN "" ELSE LowerRange(s, 1, Len(s))

\* the section headers a title line must not contain
Headers == {"example", "input:", "output:", "constraints:"}

\* The loop `for line in lines` of _extract_title from line k on, and the
\* return after it
RECURSIVE TitleLine(_, _)
TitleLine(lines, k) ==
    IF k > Len(lines) THEN lines[1]
    ELSE LET line == Strip(lines[k])
         IN  IF /\ line # ""
                /\ Len(line) < 50
                /\ Ch(line, 1) \in Upper
                /\ ~\E header \in Headers : Contains(LowerStr(line), header)
             THEN line
             ELSE TitleLine(lines, k + 1)

\* _extract_title after its search
TitleOf(text, match) ==
    IF match.ok THEN Strip(GroupStr(text, match, 1))
    ELSE TitleLine(Split(text, "\n"), 1)

\* _extract_title
ExtractTitle(text) == TitleOf(text, Search(TitleRe, text))

\* Example\s*\d+:
ExampleHeadRe == Cat(<<Lit("Example"), S0, Plus(D), Lit(":")>>)
\* (?=Example\s*\d+:|Constraints:|$)
BlockEnd == Look(Alt(<<ExampleHeadRe, Lit("Constraints:"), Eol>>))
\* Example\s*\d+:?(.*?)(?=Example\s*\d+:|Constraints:|$)   (DOTALL)
ExampleRe ==
    Cat(<<Lit("Example"), S0, Plus(D), Opt(Lit(":")), Grp(1, LazyStar(DotAll)), BlockEnd>>)
\* Input:?\s*(.*?)(?=Output|$)   (DOTALL)
InputRe ==
    Cat(<<Lit("Input"), Opt(Lit(":")), S0, Grp(1, LazyStar(DotAll)),
          Look(Alt(<<Lit("Output"), Eol>>))>>)
\* Output:?\s*(.*?)(?=Explanation|$)   (DOTALL)
OutputRe ==
    Cat(<<Lit("Output"), Opt(Lit(":")), S0, Grp(1, LazyStar(DotAll)),
          Look(Alt(<<Lit("Explanation"), Eol>>))>>)
\* Explanation:?\s*(.*?)$   (DOTALL)
ExplanationRe ==
    Cat(<<Lit("Explanation"), Opt(Lit(":")), S0, Grp(1, LazyStar(DotAll)), Eol>>)

\* m.group(1).strip(), '' without a match
FieldOf(example_text, m) == IF m.ok THEN Strip(GroupStr(example_text, m, 1)) ELSE ""

\* The three sub-field patterns, in the order of the record's fields
FieldRes == <<InputRe, OutputRe, ExplanationRe>>

\* The k-th sub-field of the example whose text is example_text
Field(k, example_text) == FieldOf(example_text, Search(FieldRes[k], example_text))

\* The record of one example text
ExampleFrom(example_text) ==
    LET field == [k \in 1..3 |-> Field(k, example_text)]
    IN  Example(field[1], field[2], field[3])

\* The body of `for match in example_matches`
ExampleOf(text, match) == ExampleFrom(Strip(GroupStr(text, match, 1)))

RECURSIVE ExamplesOf(_, _)
ExamplesOf(text, matches) ==
    IF matches = <<>> THEN <<>>
    ELSE <<ExampleOf(text, Head(matches))>> \o ExamplesOf(text, Tail(matches))

\* _extract_examples
ExtractExamples(text) == ExamplesOf(text, FindIter(ExampleRe, text))

\* Constraints:?(.*?)$   (DOTALL)
ConstraintsRe == Cat(<<Lit("Constraints"), Opt(Lit(":")), Grp(1, LazyStar(DotAll)), Eol>>)
\* \n+|\*   (the source's pattern has a third alternative, a non-ASCII bullet,
\* which no ASCII text contains)
ConstraintSplitRe == Alt(<<Plus(Cls({"\n"})), Lit("*")>>)

\* The loop `for line in lines` of _extract_constraints
RECURSIVE NonEmptyLines(_)
NonEmptyLines(lines) ==
    IF lines = <<>> THEN <<>>
    ELSE LET line == Strip(Head(lines))
         IN  (IF line # "" THEN <<line>> ELSE <<>>) \o NonEmptyLines(Tail(lines))

\* _extract_constraints after its search
ConstraintsOf(text, constraints_match) ==
    IF ~constraints_match.ok THEN <<>>
    ELSE NonEmptyLines(ReSplit(ConstraintSplitRe,
                               Strip(GroupStr(text, constraints_match, 1))))

\* _extract_constraints
ExtractConstraints(text) == ConstraintsOf(text, Search(ConstraintsRe, text))

\* ^(?:\d+\.\s*)? + re.escape(title) + (?:\n|$)
TitleLineRe(title) == Cat(<<Bol, NumberPrefix, Lit(title), LineEnd>>)
\* Example\s*\d+:?.*?(?=Example\s*\d+:|Constraints:|$)   (DOTALL)
ExampleBlockRe ==
    Cat(<<Lit("Example"), S0, Plus(D), Opt(Lit(":")), LazyStar(DotAll), BlockEnd>>)
\* Constraints:?.*?$   (DOTALL)
ConstraintsBlockRe == Cat(<<Lit("Constraints"), Opt(Lit(":")), LazyStar(DotAll), Eol>>)

\* The three removals of _extract_description, one after the other
WithoutTitle(text, title) ==
    IF title # "" THEN Strip(SubCount(TitleLineRe(title), <<>>, text, 1)) ELSE text
\* A faulty variant of WithoutExamples: the example blocks are left in
WithoutExamplesKept(description) == Strip(description)
WithoutExamples(description) == Strip(Sub(ExampleBlockRe, <<>>, description))
WithoutConstraints(description) == Strip(Sub(ConstraintsBlockRe, <<>>, description))

\* _extract_description
ExtractDescription(text, title) ==
    WithoutConstraints(WithoutExamples(WithoutTitle(text, title)))

\* parse once the title is extracted
ProblemOf(text, title) ==
    [title |-> title,
     description |-> ExtractDescription(text, title),
     examples |-> ExtractExamples(text),
     constraints |-> ExtractConstraints(text)]

\* parse once the text is cleaned
ParseText(text) == IF Evaluated(text) THEN ProblemOf(text, ExtractTitle(text)) ELSE EmptyProblem

\* ProblemParser.parse
ProblemParse(raw_text) ==
    IF raw_text = "" THEN EmptyProblem ELSE ParseText(CleanText(raw_text))

(***************************************************************************)
(* The texts given to the parsers                                          *)
(*                                                                         *)
(* A written source is a record of what its author wrote (the name, the    *)
(* parameters, the examples, ...) together with the way it is laid out as  *)
(* text.  A parser is given the text only; the record stays beside it so   *)
(* that what the parser returns can be compared with what was written.     *)
(***************************************************************************)
\* the most parameters a written signature has
MaxParams == 3
\* the most examples a written problem has
MaxExamples == 2
\* the most characters of a short text
MaxLen == 2

RECURSIVE Join(_, _)
Join(strs, sep) ==
    IF strs = <<>> THEN ""
    ELSE IF Len(strs) = 1 THEN strs[1]
    ELSE strs[1] \o sep \o Join(Tail(strs), sep)

\* The sub-sequences of pool of at most n elements (the pool's order kept)
Pick(pool, I) ==
    [k \in 1..Cardinality(I) |-> pool[CHOOSE i \in I : Cardinality({j \in I : j <= i}) = k]]
SubSeqs(pool, n) == {Pick(pool, I) : I \in {J \in SUBSET (1..Len(pool)) : Cardinality(J) <= n}}

PyPool ==
    << Param("self", "", None),
       Param("nums", "List[int]", None),
       Param("target", "int", None),
       Param("d", "Dict[str, int]", None),
       Param("k", "int", Some("5")),
       Param("m", "List[int]", Some("[1, 2]")),
       Param("t", "Tuple[int, int]", Some("(1, 2)")),
       Param("n", "int", Some("k-1")),
       Param("c", "dict", Some("{(1): 2}")),
       Param("e", "dict", Some("{}")),
       Param("s", "str", Some("\"[\"")) >>
JavaPool ==
    << Param("nums", "int[]", None),
       Param("target", "int", None),
       Param("m", "Map<String, Integer>", None),
       Param("g", "List<List<Integer>>", None) >>
CppPool ==
    << Param("nums", "vector<int>&", None),
       Param("target", "int", None),
       Param("m", "map<int, int>", None),
       Param("b", "int", Some("3")) >>

\* A written signature: header is the Python class header above the method,
\* text the whole text of a source given as it is
CodeSource(form, header, ret, params, text) ==
    [form |-> form, header |-> header, ret |-> ret,
     name |-> IF form = "text" THEN "" ELSE "twoSum", params |-> params, text |-> text]

PythonSources ==
    {CodeSource("python", "class Solution:", "List[int]", ps, "") :
         ps \in SubSeqs(PyPool, MaxParams)}
      \cup {CodeSource("python", "class Solution(object):", "List[int]", ps, "") :
                ps \in SubSeqs(PyPool, 1)}
JavaSources ==
    {CodeSource("java", "", ret, ps, "") : ret \in {"int", "int[]"}, ps \in SubSeqs(JavaPool, MaxParams)}
CppSources == {CodeSource("cpp", "", "int", ps, "") : ps \in SubSeqs(CppPool, MaxParams)}

\* JavaScript that binds a function to a variable: header is the keyword of
\* the binding, and the form tells a function expression from an arrow function
JsPool == << Param("nums", "", None), Param("target", "", None), Param("k", "", None) >>
JavascriptSources ==
    {CodeSource("jsfunction", keyword, "", ps, "") :
         keyword \in {"var", "let", "const"}, ps \in SubSeqs(JsPool, MaxParams)}
      \cup {CodeSource("jsarrow", "const", "", ps, "") : ps \in SubSeqs(JsPool, MaxParams)}

\* Texts given as they are: the JavaScript forms and a generic one
CodeTexts ==
    { "var twoSum = function(nums, target) {\n};",
      "function twoSum(nums, target) {",
      "const twoSum = (nums, target) => {",
      "void twoSum(nums, target)" }

\* Texts that the patterns of two languages match, and one that only the
\* generic heuristics tell
DetectionTexts ==
    { "def f(a):\npublic class A {",
      "#include <map>\nvar x = 1;",
      "private: {}" }

CodeSources ==
    PythonSources \cup JavaSources \cup CppSources \cup JavascriptSources
        \cup {CodeSource("text", "", "", <<>>, txt) : txt \in CodeTexts \cup DetectionTexts}

\* One parameter as its language writes it
WrittenParam(form, p) ==
    IF form = "python"
    THEN p.name \o (IF p.type # "" THEN ": " \o p.type ELSE "")
                \o (IF p.default # None THEN " = " \o p.default[1] ELSE "")
    ELSE IF form = "javascript" THEN p.name
    ELSE p.type \o " " \o p.name \o (IF p.default # None THEN " = " \o p.default[1] ELSE "")

WrittenParams(form, params) ==
    Join([k \in 1..Len(params) |-> WrittenParam(form, params[k])], ", ")

\* The text of a source
CodeText(src) ==
    CASE src.form = "python" ->
           src.header \o "\n    def " \o src.name \o "(" \o WrittenParams("python", src.params)
               \o ") -> " \o src.ret \o ":\n        pass"
      [] src.form = "java" ->
           "public " \o src.ret \o " " \o src.name \o "(" \o WrittenParams("java", src.params)
               \o ") {"
      [] src.form = "cpp" ->
           src.ret \o " " \o src.name \o "(" \o WrittenParams("cpp", src.params) \o ") {"
      [] src.form = "jsfunction" ->
           src.header \o " " \o src.name \o " = function("
               \o WrittenParams("javascript", src.params) \o ") {\n};"
      [] src.form = "jsarrow" ->
           src.header \o " " \o src.name \o " = (" \o WrittenParams("javascript", src.params)
               \o ") => {\n};"
      [] OTHER -> src.text

ExamplePool ==
    << Example("nums = [2,7], target = 9", "[0,1]", Some("Because 2 + 7 = 9.")),
       Example("x = 1", "2", None),
       Example("the Output size", "3", None) >>
DescriptionPool ==
    { <<"Given an array, find two.">>,
      <<"Given an array", "of integers.">>,
      <<"See Example 2 below.">>,
      <<"The Constraints are tight.">> }
ConstraintPool ==
    { <<>>, <<"1 <= n <= 10", "- only one answer">>, <<"1 <= n * m <= 9">> }

ProblemSource(form, prefix, title, description, examples, constraints, text) ==
    [form |-> form, prefix |-> prefix, title |-> title, description |-> description,
     examples |-> examples, constraints |-> constraints, text |-> text]

WrittenProblems ==
    {ProblemSource("written", prefix, "Two Sum", ds, es, cs, "") :
        prefix \in {"", "1. "}, ds \in DescriptionPool,
        es \in SubSeqs(ExamplePool, MaxExamples), cs \in ConstraintPool}

\* Texts given as they are
ProblemTexts ==
    { "given an array.\nTwo Sum\nmore",
      "Example 1:\nInput: x",
      "Two Sum \nmore, text" }

ProblemSources ==
    WrittenProblems \cup {ProblemSource("text", "", "", <<>>, <<>>, <<>>, txt) : txt \in ProblemTexts}

DigitStr(n) == Ch("0123456789", n + 1)

\* The lines of the n-th example: its header and its labelled sub-fields
ExampleLines(n, e) ==
    << "Example " \o DigitStr(n) \o ":", "Input: " \o e.input, "Output: " \o e.output >>
        \o (IF e.explanation # None THEN << "Explanation: " \o e.explanation[1] >> ELSE <<>>)

RECURSIVE ExamplesLines(_, _)
ExamplesLines(examples, n) ==
    IF n > Len(examples) THEN <<>>
    ELSE ExampleLines(n, examples[n]) \o ExamplesLines(examples, n + 1)

ProblemText(src) ==
    IF src.form = "text" THEN src.text
    ELSE Join(<< src.prefix \o src.title >> \o src.description
                  \o ExamplesLines(src.examples, 1)
                  \o (IF src.constraints # <<>> THEN <<"Constraints:">> \o src.constraints
                      ELSE <<>>),
              "\n")

\* The texts of at most MaxLen characters over a small alphabet
RECURSIVE ShortTexts(_)
ShortTexts(n) ==
    IF n = 0 THEN {""}
    ELSE ShortTexts(n - 1) \cup {s \o c : s \in ShortTexts(n - 1), c \in {" ", "\n", "A", "1"}}

NoCode == CodeSource("text", "", "", <<>>, "")
NoProblem == ProblemSource("text", "", "", <<>>, <<>>, <<>>, "")

(***************************************************************************)
(* ImageProcessor (preprocessing/image_processor.py).  The code sees an    *)
(* image through OpenCV: the model keeps of an image its shape and the     *)
(* binary image the inverse adaptive threshold makes of it, given as the   *)
(* white rectangles (text blocks) on black, no two of them touching.       *)
(***************************************************************************)
\* The largest height, the largest width and the largest number of blocks
MaxH == 6
MaxW == 2
MaxBlobs == 2

\* A dict of Python: the set of its (key, value) pairs
Keys(dict) == {kv[1] : kv \in dict}
Get(dict, key) == (CHOOSE kv \in dict : kv[1] = key)[2]
GetOr(dict, key, default) == IF key \in Keys(dict) THEN Get(dict, key) ELSE default

\* The sum of the numbers of a sequence
RECURSIVE SumSeq(_)
SumSeq(seq) == IF seq = <<>> THEN 0 ELSE Head(seq) + SumSeq(Tail(seq))

\* An image of h rows and w columns whose threshold image holds the blocks
\* blobs, each a box (x, y, w, h), in the order findContours reports them
Image(h, w, blobs) == [h |-> h, w |-> w, blobs |-> blobs]

\* image.size == 0
EmptyImage(image) == image.h * image.w = 0

\* cv2.findContours(thresh, RETR_EXTERNAL, CHAIN_APPROX_SIMPLE): one contour
\* a block, the corners of the block
FindContours(image) == image.blobs

\* cv2.boundingRect(cnt)
BoundingRect(cnt) == cnt

\* cv2.contourArea(cnt): the area the corner pixels' centres enclose
ContourArea(cnt) == (cnt[3] - 1) * (cnt[4] - 1)

\* cv2.contourArea(cnt) > min_area, with min_area = 0.01 * h * w
AboveMinArea(cnt, image) == 100 * ContourArea(cnt) > image.h * image.w

\* valid_contours = [cnt for cnt in contours if cv2.contourArea(cnt) > min_area]
ValidContours(image) ==
    SelectSeq(FindContours(image), LAMBDA cnt : AboveMinArea(cnt, image))

\* sorted(valid_contours, key=lambda c: cv2.boundingRect(c)[1]): a stable sort
RECURSIVE InsertByTop(_, _)
InsertByTop(sorted, cnt) ==
    IF sorted = <<>> THEN <<cnt>>
    ELSE IF BoundingRect(sorted[Len(sorted)])[2] <= BoundingRect(cnt)[2]
         THEN Append(sorted, cnt)
         ELSE Append(InsertByTop(SubSeq(sorted, 1, Len(sorted) - 1), cnt),
                     sorted[Len(sorted)])

RECURSIVE SortedByTop(_)
SortedByTop(contours) ==
    IF contours = <<>> THEN <<>>
    ELSE InsertByTop(SortedByTop(SubSeq(contours, 1, Len(contours) - 1)),
                     contours[Len(contours)])

\* The regions of the contour method: the first and the last sorted contour
LastBox(sorted_contours) == BoundingRect(sorted_contours[Len(sorted_contours)])
FirstBox(sorted_contours) == BoundingRect(sorted_contours[1])
ContourRegionsSwapped(sorted_contours) ==
    {<<"PROBLEM", LastBox(sorted_contours)>>, <<"CODE", FirstBox(sorted_contours)>>}
ContourRegions(sorted_contours) ==
    {<<"PROBLEM", FirstBox(sorted_contours)>>, <<"CODE", LastBox(sorted_contours)>>}

\* h_projection = np.sum(thresh, axis=1): 255 for every white pixel of the row
WhiteValue == 255
RowSum(image, row) ==
    WhiteValue * SumSeq([i \in 1..Len(image.blobs) |->
                            IF /\ image.blobs[i][2] <= row
                               /\ row < image.blobs[i][2] + image.blobs[i][4]
                            THEN image.blobs[i][3] ELSE 0])
HProjection(image) == [i \in 1..image.h |-> RowSum(image, i - 1)]

\* gaps = h_projection < np.mean(h_projection) * 0.5, as 0 and 1
Gaps(h_projection) ==
    [i \in 1..Len(h_projection) |->
        IF 2 * Len(h_projection) * h_projection[i] < SumSeq(h_projection) THEN 1 ELSE 0]

\* np.diff(gaps.astype(int))
Diff(gaps) == [i \in 1..(Len(gaps) - 1) |-> gaps[i + 1] - gaps[i]]

\* np.where(diff == value)[0]: the indices, from 0, in ascending order
RECURSIVE WhereFrom(_, _, _)
WhereFrom(diff, value, i) ==
    IF i > Len(diff) THEN <<>>
    ELSE (IF diff[i] = value THEN <<i - 1>> ELSE <<>>) \o WhereFrom(diff, value, i + 1)
Where(diff, value) == WhereFrom(diff, value, 1)

GapStarts(gaps) == Where(Diff(gaps), 1)
GapEnds(gaps) == Where(Diff(gaps), -1)

\* gap_ends - gap_starts of numpy: element by element, an array of one
\* element being stretched to the length of the other; any other pair of
\* lengths raises ValueError
Broadcasts(gap_starts, gap_ends) ==
    \/ Len(gap_starts) = Len(gap_ends)
    \/ Len(gap_starts) = 1
    \/ Len(gap_ends) = 1
Stretched(array, i) == IF Len(array) = 1 THEN array[1] ELSE array[i]
GapLengths(gap_starts, gap_ends) ==
    [i \in 1..Max({Len(gap_starts), Len(gap_ends)}) |->
        Stretched(gap_ends, i) - Stretched(gap_starts, i)]

\* np.argmax(gap_lengths): the first index, from 0, of the largest element
ArgMax(array) ==
    (CHOOSE i \in 1..Len(array) :
        /\ \A j \in 1..Len(array) : array[j] <= array[i]
        /\ \A j \in 1..(i - 1) : array[j] < array[i]) - 1

\* gap_starts[max_gap_idx] and gap_ends[max_gap_idx] raise IndexError past
\* the end of the array
InRange(array, idx) == idx < Len(array)

\* split_y = (gap_starts[max_gap_idx] + gap_ends[max_gap_idx]) // 2
SplitY(gap_starts, gap_ends, max_gap_idx) ==
    (gap_starts[max_gap_idx + 1] + gap_ends[max_gap_idx + 1]) \div 2

\* The regions of a split of the image at row split_y
SplitRegions(image, split_y) ==
    {<<"PROBLEM", <<0, 0, image.w, split_y>>>>,
     <<"CODE", <<0, split_y, image.w, image.h - split_y>>>>}

\* Method 2 of _analyze_layout: {} when no gap start or no gap end is found,
\* and {} from the except clause when numpy raises
ProjectionOf(image, gap_starts, gap_ends) ==
    IF Len(gap_starts) > 0 /\ Len(gap_ends) > 0
    THEN IF ~Broadcasts(gap_starts, gap_ends) THEN {}
         ELSE IF ~InRange(gap_starts, ArgMax(GapLengths(gap_starts, gap_ends))) THEN {}
         ELSE IF ~InRange(gap_ends, ArgMax(GapLengths(gap_starts, gap_ends))) THEN {}
         ELSE SplitRegions(image, SplitY(gap_starts, gap_ends,
                                         ArgMax(GapLengths(gap_starts, gap_ends))))
    ELSE {}
ProjectionOn(image, gaps) == ProjectionOf(image, GapStarts(gaps), GapEnds(gaps))
ProjectionRegions(image) == ProjectionOn(image, Gaps(HProjection(image)))

\* _analyze_layout(gray_image): cv2.adaptiveThreshold raises on an image
\* without pixels, which the except clause turns into {}
LayoutOf(image, valid_contours) ==
    IF Len(valid_contours) >= 2
    THEN ContourRegions(SortedByTop(valid_contours))
    ELSE ProjectionRegions(image)
AnalyzeLayout(gray_image) ==
    IF EmptyImage(gray_image) THEN {}
    ELSE LayoutOf(gray_image, ValidContours(gray_image))

\* The fallback of detect_regions: the image split in half
StaticRegions(image) ==
    {<<"PROBLEM", <<0, 0, image.w, image.h \div 2>>>>,
     <<"CODE", <<0, image.h \div 2, image.w, image.h - image.h \div 2>>>>}

\* detect_regions(image)
RegionsMixed(image, regions) ==
    IF regions = {} THEN StaticRegions(image)
    ELSE {<<"PROBLEM", Get(regions, "PROBLEM")>>, <<"CODE", Get(StaticRegions(image), "CODE")>>}
RegionsOr(image, regions) == IF regions = {} THEN StaticRegions(image) ELSE regions
DetectRegions(image) == RegionsOr(image, AnalyzeLayout(image))

\* What correct_perspective sees of an image: the number of contours of its
\* edge map, the number of vertices of the polygon approximating the largest
\* of them, and the image warpPerspective makes, max_height rows of
\* max_width columns
EdgeMap(contours, vertices, warped) ==
    [contours |-> contours, vertices |-> vertices, warped |-> warped]

\* What a call does: it raises, or it returns an image, which may be the
\* very image it was given
Raises(error) == [raised |-> TRUE, error |-> error]
Returns(value) == [raised |-> FALSE, value |-> value]
SameImage(image) == Returns([same |-> TRUE, image |-> image])
NewImage(image) == Returns([same |-> FALSE, image |-> image])

\* 0.7 < (warped_aspect / orig_aspect) < 1.3, with orig_aspect = w / h and
\* warped_aspect = max_width / max_height
AspectKept(image, warped) ==
    /\ 7 * warped.h * image.w < 10 * warped.w * image.h
    /\ 10 * warped.w * image.h < 13 * warped.h * image.w

\* The branch of the four vertices: cv2.warpPerspective takes the size of
\* its source when the size (max_width, max_height) it is given has no
\* pixel; max_width / max_height then raises when max_height is 0, and a
\* max_width of 0 makes an aspect of 0
WarpedAlways(image, warped) ==
    IF warped.h = 0 THEN Raises("ZeroDivisionError")
    ELSE NewImage(warped)
WarpedOr(image, warped) ==
    IF warped.h = 0 THEN Raises("ZeroDivisionError")
    ELSE IF AspectKept(image, warped) THEN NewImage(warped)
    ELSE SameImage(image)

\* correct_perspective(image), for an image with pixels
QuadVertices == 4
CorrectPerspectiveAnyPolygon(image, edge_map) ==
    IF edge_map.contours = 0 THEN SameImage(image)
    ELSE WarpedOr(image, edge_map.warped)
CorrectPerspective(image, edge_map) ==
    IF edge_map.contours = 0 THEN SameImage(image)
    ELSE IF edge_map.vertices = QuadVertices THEN WarpedOr(image, edge_map.warped)
    ELSE SameImage(image)

\* img[y:y+h, x:x+w]: the slice of numpy stops at the border of the image
Crop(image, box) ==
    [h |-> Max({0, Min({image.h, box[2] + box[4]}) - Min({image.h, box[2]})}),
     w |-> Max({0, Min({image.w, box[1] + box[3]}) - Min({image.w, box[1]})})]

\* enhance_problem_region, enhance_code_region: OpenCV raises on a region
\* without pixels
EnhanceRaises(region_img) == region_img.h * region_img.w = 0

\* The loop of preprocess_for_ocr over the regions of img
ProcessedRegions(img, regions) ==
    IF \E kv \in regions : EnhanceRaises(Crop(img, kv[2])) THEN Raises("cv2.error")
    ELSE Returns({<<kv[1], Crop(img, kv[2])>> : kv \in regions})

\* preprocess_for_ocr(image) from the perspective correction on
ProcessedFrom(corrected) ==
    IF corrected.raised THEN corrected
    ELSE ProcessedRegions(corrected.value.image, DetectRegions(corrected.value.image))

\* preprocess_for_ocr(image): image is None, or an image
InvalidImageNone(image) == image = None
InvalidImage(image) == image = None \/ EmptyImage(image[1])
PreprocessForOcr(image, edge_map) ==
    IF InvalidImage(image) THEN Raises("Invalid input image")
    ELSE ProcessedFrom(CorrectPerspective(image[1], edge_map))

(***************************************************************************)
(* OCREngine (ocr/ocr_engine.py).  Tesseract is known by what a call to    *)
(* it does: it returns a text or it raises.                                *)
(***************************************************************************)
\* TextType
TextTypes == {"PROBLEM", "CODE", "GENERAL"}

\* self.configs of __init__
Configs(text_type) ==
    IF text_type = "PROBLEM" THEN "--psm 6 --oem 3"
    ELSE IF text_type = "CODE" THEN "--psm 6 --oem 3 -c preserve_interword_spaces=1"
    ELSE "--psm 3 --oem 3"

\* self.code_char_whitelist of __init__, but for its last character, the
\* grave accent, which no string of this module can hold
CodeCharWhitelist ==
    "ABCDEFGHIJKLMNOPQRSTUVWXYZabcdefghijklmnopqrstuvwxyz0123456789+-*/=<>:;,.()[]{}!?'\"\\|&^%$#@~"

\* The state of the OCREngine instance, and what its calls handed to Tesseract
VARIABLES
    configs,              \* self.configs: a configuration for every text type
    code_char_whitelist,  \* self.code_char_whitelist
    config_log            \* the <<text type, configuration>> pairs handed to Tesseract so far
engine_vars == <<configs, code_char_whitelist, config_log>>

\* The configuration extract_text hands to pytesseract.image_to_string:
\* config = self.configs[text_type], with the whitelist option for Code
ConfigPlain(text_type) == Configs(text_type)
ConfigFor(text_type) ==
    IF text_type = "CODE"
    THEN configs[text_type] \o " -c tessedit_char_whitelist='" \o code_char_whitelist \o "'"
    ELSE configs[text_type]

\* self.configs after extract_text(image, text_type): config is a local
\* name, and config += ... binds it to a new string
ConfigsGrown(table, text_type) ==
    IF text_type = "CODE"
    THEN [table EXCEPT ![text_type] = @ \o " -c tessedit_char_whitelist='" \o CodeCharWhitelist \o "'"]
    ELSE table
ConfigsAfter(table, text_type) == table

\* self.configs after extract_text was called for each text type of a set
RECURSIVE ConfigsAfterAll(_, _)
ConfigsAfterAll(table, text_types) ==
    IF text_types = {} THEN table
    ELSE ConfigsAfterAll(ConfigsAfter(table, CHOOSE t \in text_types : TRUE),
                         text_types \ {CHOOSE t \in text_types : TRUE})

\* What Tesseract does when called: a reply for every text type
Reply(ok, text) == [ok |-> ok, text |-> text]
Failure == Reply(FALSE, "")

\* preprocess_image(image, text_type): OpenCV raises on an image without pixels
PreprocessRaises(image) == image.h * image.w = 0

\* The try statement of extract_text around pytesseract.image_to_string
TextOrRaise(reply) == IF reply.ok THEN Returns(reply.text) ELSE Raises("OCR error")
TextOr(reply) == IF reply.ok THEN Returns(reply.text) ELSE Returns("")

\* extract_text(image, text_type): what it does, the configuration it called
\* Tesseract with (None when it made no call) and whether the call failed
Extracted(outcome, config, failed) ==
    [outcome |-> outcome, config |-> config, failed |-> failed]
ExtractText(image, text_type, engine) ==
    IF PreprocessRaises(image) THEN Extracted(Raises("cv2.error"), None, FALSE)
    ELSE Extracted(TextOr(engine[text_type]), Some(ConfigFor(text_type)),
                   ~engine[text_type].ok)

\* The text type extract_from_regions and the pipeline read a region with
TextTypeOf(region_type) ==
    IF region_type = "PROBLEM" THEN "PROBLEM"
    ELSE IF region_type = "CODE" THEN "CODE"
    ELSE "GENERAL"

\* extract_from_regions(regions_dict): an exception of extract_text ends it
TextOfRegion(kv, engine) == ExtractText(kv[2], TextTypeOf(kv[1]), engine).outcome
ExtractFromRegions(regions_dict, engine) ==
    IF \E kv \in regions_dict : TextOfRegion(kv, engine).raised
    THEN Raises("cv2.error")
    ELSE Returns({<<kv[1], TextOfRegion(kv, engine).value>> : kv \in regions_dict})

\* The pipeline of process_image_callback from the regions on: the texts are
\* read, parsed, and handed to the solution manager, which returns a
\* solution or raises; every exception becomes the 'error' entry
Parsed(text_results, backend_ok) ==
    IF backend_ok
    THEN [problem_info |-> ProblemParse(GetOr(text_results, "PROBLEM", "")),
          code_info |-> CodeParse(GetOr(text_results, "CODE", "")),
          solution |-> "solution",
          raw_ocr |-> text_results]
    ELSE [error |-> "backend"]
ResultOf(text_results, backend_ok) ==
    IF text_results.raised THEN [error |-> text_results.error]
    ELSE Parsed(text_results.value, backend_ok)
ResultFrom(processed_regions, engine_replies, backend_ok) ==
    IF processed_regions.raised THEN [error |-> processed_regions.error]
    ELSE ResultOf(ExtractFromRegions(processed_regions.value, engine_replies), backend_ok)

\* process_image_callback(img, metadata)
ProcessImageCallback(img, edges, engine_replies, backend_ok) ==
    ResultFrom(PreprocessForOcr(img, edges), engine_replies, backend_ok)

(***************************************************************************)
(* The images, edge maps and engines the calls are made with               *)
(***************************************************************************)
\* The boxes of at least one pixel inside an image of h rows and w columns
RectsIn(h, w) ==
    {r \in (0..(w - 1)) \X (0..(h - 1)) \X (1..w) \X (1..h) :
        r[1] + r[3] <= w /\ r[2] + r[4] <= h}

\* Two blocks with a black pixel between them in some direction
Apart(a, b) ==
    \/ a[1] + a[3] < b[1]
    \/ b[1] + b[3] < a[1]
    \/ a[2] + a[4] < b[2]
    \/ b[2] + b[4] < a[2]

\* The sequences of at most n blocks, any two apart, in any order
RECURSIVE BlobSeqs(_, _, _)
BlobSeqs(h, w, n) ==
    IF n = 0 THEN {<<>>}
    ELSE LET shorter == BlobSeqs(h, w, n - 1)
         IN  shorter \cup
             {Append(pair[1], pair[2]) :
                 pair \in {sr \in {seq \in shorter : Len(seq) = n - 1} \X RectsIn(h, w) :
                              \A i \in 1..Len(sr[1]) : Apart(sr[1][i], sr[2])}}

\* The images of at least one pixel
ImagesOf(heights, widths, n) ==
    UNION {{Image(h, w, blobs) : blobs \in BlobSeqs(h, w, n)} : h \in heights, w \in widths}

\* The arguments of preprocess_for_ocr: no image, images without pixels and
\* small images
MaxSide == 2
Frames ==
    {None} \cup {Some(Image(h, w, <<>>)) : h \in {0}, w \in 0..1}
           \cup {Some(Image(h, w, <<>>)) : h \in 0..1, w \in {0}}
           \cup {Some(image) : image \in ImagesOf(1..MaxSide, 1..MaxSide, 1)}

\* The edge maps: no contour, or a largest contour of three to five vertices
\* with the image its four vertices are warped to
NoEdges == EdgeMap(0, 0, Image(0, 0, <<>>))
EdgeMaps ==
    {NoEdges, EdgeMap(1, 3, Image(0, 0, <<>>)), EdgeMap(2, 5, Image(0, 0, <<>>))}
        \cup {EdgeMap(1, QuadVertices, Image(h, w, <<>>)) : h \in 0..MaxSide, w \in 0..MaxSide}

\* The engines: Tesseract fails or reads a text, for each text type
Readings == [PROBLEM |-> "Two Sum", CODE |-> "def f(a):", GENERAL |-> "x"]
Engines ==
    {[t \in TextTypes |-> IF t \in failing THEN Failure ELSE Reply(TRUE, Readings[t])] :
        failing \in SUBSET TextTypes}
NoEngine == [t \in TextTypes |-> Failure]

\* The dicts extract_from_regions is called with: each region type absent,
\* or with an image, or with an image without pixels
RegionDicts(image) ==
    {{<<t, IF t \in empty THEN Image(0, 0, <<>>) ELSE image>> : t \in present} :
        present \in SUBSET {"PROBLEM", "CODE", "UNKNOWN"},
        empty \in SUBSET {"CODE", "UNKNOWN"}}

(***************************************************************************)
(* The receiver (desktop_app/receiver.py): the upload endpoint, the image  *)
(* queue and the processing worker.  An image is known by its number, in   *)
(* the order in which the uploads begin.                                   *)
(***************************************************************************)
\* image_queue = Queue(maxsize=10)
QueueMaxsize == 10

\* The most uploads that begin after the initial state
MaxUploads == 2

\* The threads of the server that run upload_image
Uploaders == {"u1", "u2"}

VARIABLES
    image_queue,       \* the images on the queue, oldest first
    queued,            \* every image ever put on the queue, in the order of the puts
    uploads_left,      \* how many more uploads may begin
    next_image,        \* the number of the next image uploaded
    upload_pc,         \* where each thread of upload_image is
    upload_of,         \* the image each thread of upload_image holds (0: none)
    success_for,       \* the images whose upload was answered with status 'success'
    worker_pc,         \* where process_image_queue is
    current,           \* the image the worker is processing: None between images
    taken,             \* every image the worker took from the queue, in order
    last_outcome,      \* what the callback did for the last image it was called with
    processing_stats   \* received_count, processed_count, error_count
receiver_vars ==
    <<image_queue, queued, uploads_left, next_image, upload_pc, upload_of, success_for,
      worker_pc, current, taken, last_outcome, processing_stats>>

\* Queue.put(item, block=False): raises Full when the queue holds maxsize items
PutNoWait(queue, item) ==
    IF Len(queue) < QueueMaxsize THEN Returns(Append(queue, item)) ELSE Raises("Full")

\* Queue.get_nowait(), and Queue.get(timeout=1) when the time is over:
\* raises Empty when the queue holds nothing
GetNoWait(queue) ==
    IF queue = <<>> THEN Raises("Empty")
    ELSE Returns([item |-> Head(queue), queue |-> Tail(queue)])

\* processing_stats[key] += 1
Incremented(stats, key) == [stats EXCEPT ![key] = @ + 1]

\* What the request of an upload holds: no 'image' key, data that is not an
\* image, or an image
Requests == {"missing", "undecodable", "image"}

\* What process_callback does: it returns a result, returns a result with an
\* 'error' key, or raises
CallbackOutcomes == {"result", "error", "raised"}

\* Where the worker goes after the callback: the try statement around the
\* callback catches every exception, and the statistics are updated next
AfterCallbackUncaught(outcome) == IF outcome = "raised" THEN "stopped" ELSE "stats"
AfterCallback(outcome) == "stats"

(***************************************************************************)
(* The solution manager (desktop_app/ai/solution_manager.py).  A solution  *)
(* is the dict the generator returned with the keys the manager adds; its  *)
(* number stands for its timestamp and tells two solutions apart.          *)
(***************************************************************************)
\* The most solutions one session keeps in solution_history
MaxSolutions == 2

\* problem_info.get('description', '')[:100]
DescriptionPrefix == 100

VARIABLES
    solution_history,       \* self.solution_history
    current_problem_hash,   \* self.current_problem_hash
    current_solution,       \* self.current_solution
    last_call               \* the last call of the manager: None before the first
manager_vars == <<solution_history, current_problem_hash, current_solution, last_call>>

\* A description of n times the character x and then the character c
LongDescription(n, c) == [i \in 1..(n + 1) |-> IF i = n + 1 THEN c ELSE "x"]

\* _compute_problem_hash: the md5 of title|description[:100]|function_name|language,
\* known by the four components that are hashed
ComputeProblemHash(problem, code) ==
    <<problem.title,
      SubSeq(problem.description, 1,
             IF Len(problem.description) < DescriptionPrefix
             THEN Len(problem.description) ELSE DescriptionPrefix),
      code.function_name, code.language>>

\* What generate_code and refine_code do: raise, or return a dict, with an
\* 'error' key or without, whose code the validator accepts or rejects
Generations ==
    {[raises |-> TRUE, error |-> FALSE, is_valid |-> FALSE]}
        \cup {[raises |-> FALSE, error |-> error, is_valid |-> is_valid] :
                 error \in BOOLEAN, is_valid \in BOOLEAN}

\* The solution made of what the generator returned
SolutionOf(number, generation, problem, code, is_fix, is_refinement) ==
    [number |-> number, error |-> generation.error, is_valid |-> generation.is_valid,
     is_fix |-> is_fix, is_refinement |-> is_refinement,
     problem_title |-> problem.title, language |-> code.language]

\* _fix_invalid_code: the refined solution when refine_code raises nothing
\* and the validator accepts its code, None otherwise
FixInvalidCode(number, fix, problem, code) ==
    IF fix.raises THEN None
    ELSE IF ~fix.is_valid THEN None
    ELSE Some(SolutionOf(number, fix, problem, code, TRUE, FALSE))

\* self.solution_history.append(solution)
HistoryKept(history, solution) == history
HistoryAfter(history, solution) == Append(history, solution)

\* The manager's attributes
Manager(history, problem_hash, solution) ==
    [solution_history |-> history, current_problem_hash |-> problem_hash,
     current_solution |-> solution]

\* What a call does: the manager after it, what it returned or raised, and
\* whether it took the branch of the cached solution
Called(self, outcome, hit) == [self |-> self, outcome |-> outcome, hit |-> hit]

\* process_problem(problem_info, code_info, force_regenerate), for what the
\* generator does, the setting ai.auto_fix_invalid and what refine_code
\* does when the code is to be fixed
ProcessProblem(self, problem, code, force_regenerate, generation, auto_fix_invalid, fix) ==
    LET problem_hash == ComputeProblemHash(problem, code)
        number == Len(self.solution_history) + 1
    IN  IF /\ ~force_regenerate
           /\ Some(problem_hash) = self.current_problem_hash
           /\ self.current_solution # None
        THEN Called(self, Returns(self.current_solution[1]), TRUE)
        ELSE IF generation.raises THEN Called(self, Raises("Exception"), FALSE)
        ELSE LET generated == SolutionOf(number, generation, problem, code, FALSE, FALSE)
                 fixed_solution ==
                     IF ~generation.is_valid /\ auto_fix_invalid /\ ~generation.error
                     THEN FixInvalidCode(number, fix, problem, code)
                     ELSE None
                 solution ==
                     IF fixed_solution # None /\ fixed_solution[1].is_valid
                     THEN fixed_solution[1] ELSE generated
             IN  Called(Manager(HistoryAfter(self.solution_history, solution),
                                Some(problem_hash), Some(solution)),
                        Returns(solution), FALSE)

\* The dict refine_solution returns when it refines nothing
ErrorDict(message) == [error_message |-> message]

\* refine_solution(feedback), for whether the saved problem of the latest
\* solution is found in the output directory and what refine_code does
RefineSolution(self, retrievable, generation) ==
    IF self.current_solution = None
    THEN Called(self, Returns(ErrorDict("No current solution to refine")), FALSE)
    ELSE IF ~retrievable
    THEN Called(self, Returns(ErrorDict("Could not retrieve problem info for refinement")),
                FALSE)
    ELSE IF generation.raises THEN Called(self, Raises("Exception"), FALSE)
    ELSE LET latest_solution == self.solution_history[Len(self.solution_history)]
             solution ==
                 SolutionOf(Len(self.solution_history) + 1, generation,
                            [title |-> latest_solution.problem_title],
                            [language |-> latest_solution.language], FALSE, TRUE)
         IN  Called(Manager(HistoryAfter(self.solution_history, solution),
                            self.current_problem_hash, Some(solution)),
                    Returns(solution), FALSE)

\* The problems and the signatures the manager is called with: two titles,
\* and descriptions that differ after their first 100 characters only
ProblemInfos ==
    {[title |-> title, description |-> LongDescription(DescriptionPrefix, c)] :
        title \in {"Two Sum", "Add"}, c \in {"a", "b"}}
CodeInfos == {[function_name |-> "f", language |-> "python"]}

(***************************************************************************)
(* ImageProcessor._order_points (preprocessing/image_processor.py): the    *)
(* four vertices of the largest contour, a point being <<x, y>>.           *)
(***************************************************************************)
\* The largest coordinate of a vertex
MaxCoord == 2

VARIABLES
    pts,    \* the argument of _order_points
    rect    \* what _order_points returned: None before the call
points_vars == <<pts, rect>>

\* np.argmin(array): the first index, from 0, of the smallest element
ArgMin(array) ==
    (CHOOSE i \in 1..Len(array) :
        /\ \A j \in 1..Len(array) : array[i] <= array[j]
        /\ \A j \in 1..(i - 1) : array[i] < array[j]) - 1

\* rect[0], rect[2]: the points of smallest and largest x + y;
\* rect[1], rect[3]: the points of smallest and largest y - x
OrderPoints(points) ==
    LET s == [i \in 1..Len(points) |-> points[i][1] + points[i][2]]
        diff == [i \in 1..Len(points) |-> points[i][2] - points[i][1]]
    IN  <<points[ArgMin(s) + 1], points[ArgMin(diff) + 1],
          points[ArgMax(s) + 1], points[ArgMax(diff) + 1]>>

\* Four distinct points, in every order approxPolyDP may report them
Quadrilaterals ==
    LET Points == (0..MaxCoord) \X (0..MaxCoord)
    IN  {q \in [1..QuadVertices -> Points] :
            \A i, j \in 1..QuadVertices : i # j => q[i] # q[j]}

(***************************************************************************)
(* The background-polarity step of enhance_problem_region,                 *)
(* enhance_code_region and OCREngine.preprocess_image: a grayscale image   *)
(* is the sequence of its pixels.                                          *)
(***************************************************************************)
\* The most pixels of a grayscale image
MaxPixels == 3

\* avg_brightness < 128
DarkThreshold == 128

VARIABLES
    gray,      \* the grayscale image the step is first applied to
    stepped    \* the images the applications of the step left, in order
polarity_vars == <<gray, stepped>>

\* is_dark_background, _is_dark_background: np.mean(gray_image) < 128
IsDarkBackground(gray_image) ==
    SumSeq(gray_image) < DarkThreshold * Len(gray_image)

\* cv2.bitwise_not of an 8-bit image
BitwiseNot(gray_image) ==
    [i \in 1..Len(gray_image) |-> WhiteValue - gray_image[i]]

\* is_dark_bg = self.is_dark_background(gray); if is_dark_bg: gray = cv2.bitwise_not(gray)
PolarityStep(gray_image) ==
    IF IsDarkBackground(gray_image) THEN BitwiseNot(gray_image) ELSE gray_image

\* The grayscale images: black, white and the two intensities next to the
\* threshold
Intensities == {0, DarkThreshold - 1, DarkThreshold, WhiteValue}
GrayImages == UNION {[1..n -> Intensities] : n \in 1..MaxPixels}

(***************************************************************************)
(* The parameter-list scanners of _parse_python, _parse_java and           *)
(* _parse_cpp on a parameter-list text of their own                        *)
(***************************************************************************)
\* The most characters of a parameter-list text
MaxScan == 3

VARIABLES
    scan_lang,      \* the language whose scanner runs
    params_text,    \* the text between the parentheses
    scan_trace      \* the loop's state after each character: None before the scan
scan_vars == <<scan_lang, params_text, scan_trace>>

\* The loop's states after each character of params_text + ','
ScanTrace(lang, text) ==
    [i \in 1..(Len(text) + 1) |-> ScanLoop(lang, ScanStart, text \o ",", 1, i)]

\* The parameter-list texts: a name, the comma and the brackets
RECURSIVE ParamTexts(_)
ParamTexts(n) ==
    IF n = 0 THEN {""}
    ELSE ParamTexts(n - 1)
             \cup {t \o c : t \in ParamTexts(n - 1), c \in {"a", ",", "[", "]", "<", ">"}}

(***************************************************************************)
(* The four stages of process_image_callback (desktop_app/main.py) run by  *)
(* several workers on the same ImageProcessor, OCREngine, ProblemParser    *)
(* and CodeParser instances.  An image is known by what the edge detection *)
(* finds in it and by what Tesseract reads in its regions.                 *)
(***************************************************************************)
\* The most images the workers take
MaxJobs == 3

\* The workers that call process_image_callback
Workers == {"w1", "w2"}

\* The instances whose __init__ sets no attribute
Components == {"image_processor", "problem_parser", "code_parser"}

VARIABLES
    attributes,   \* the attributes of the three instances of Components
    jobs,         \* where each worker is in the callback, and its local names
    jobs_left,    \* how many more images the workers may take
    records       \* the <<image, records>> pairs of the finished callbacks
job_vars == <<attributes, jobs, jobs_left, records>>

\* The attributes of an instance after one of its methods ran on an image:
\* the methods assign to local names only
AttributesKeeping(attrs, component, img) ==
    [attrs EXCEPT ![component] = @ \cup {<<"last_image", img>>}]
AttributesAfter(attrs, component, img) == attrs

\* pytesseract.image_to_string(image, config=config): what Tesseract reads
\* in an image is a function of the image and of the configuration; the
\* reading of the engine is the one under the configuration of __init__
ReadUnder(did, text_type) ==
    IF did.config =
         Some(IF text_type = "CODE"
              THEN Configs(text_type) \o " -c tessedit_char_whitelist='"
                       \o CodeCharWhitelist \o "'"
              ELSE Configs(text_type))
    THEN did.outcome.value
    ELSE "(another reading)"

\* The images the workers take: no image, an image without pixels, and
\* images with a problem and a code region that Tesseract reads, or fails
\* to read
JobInput(img, replies) == [image |-> img, edge_map |-> NoEdges, engine |-> replies]
OtherReadings == [PROBLEM |-> "Add", CODE |-> "var x = 1;", GENERAL |-> ""]
JobInputs ==
    { JobInput(None, NoEngine),
      JobInput(Some(Image(1, 1, <<>>)), NoEngine),
      JobInput(Some(Image(MaxSide, MaxSide, <<>>)),
               [t \in TextTypes |-> Reply(TRUE, Readings[t])]),
      JobInput(Some(Image(MaxSide, 1, <<>>)),
               [t \in TextTypes |-> Reply(TRUE, OtherReadings[t])]),
      JobInput(Some(Image(MaxSide, MaxSide, <<>>)),
               [t \in TextTypes |-> IF t = "CODE" THEN Failure
                                    ELSE Reply(TRUE, Readings[t])]) }

\* A worker between two images, and a worker in the callback
Job(pc, input, processed_regions, text_results) ==
    [pc |-> pc, input |-> input, processed_regions |-> processed_regions,
     text_results |-> text_results]
IdleJob == Job("idle", JobInput(None, NoEngine), {}, {})

\* The records of an image: what process_image_callback returns for it
\* without the solution, which the solution manager makes
RecordsOf(input) ==
    LET returned == ProcessImageCallback(input.image, input.edge_map, input.engine, TRUE)
    IN  IF "error" \in DOMAIN returned THEN returned
        ELSE [problem_info |-> returned.problem_info, code_info |-> returned.code_info,
              raw_ocr |-> returned.raw_ocr]

(***************************************************************************)
(* The state machine: a text arrives, the parser is called on it, and the  *)
(* signature the code parser returned is given back to it alone.           *)
(***************************************************************************)
VARIABLES
    code_src,       \* what was written (not seen by the parser)
    code_text,      \* the argument of CodeParser.parse
    code_info,      \* what CodeParser.parse returned: None before the call
    reparse_info,   \* what it returned for code_info's function_signature
    problem_src,    \* what was written (not seen by the parser)
    problem_text,   \* the argument of ProblemParser.parse
    problem_info,   \* what ProblemParser.parse returned: None before the call
    image,          \* the image given to the image processor, None for no image
    edge_map,       \* what the edge detection finds in it
    engine,         \* what Tesseract replies, by text type
    backend,        \* whether the solution manager returns a solution
    corrected,      \* what correct_perspective did: None before the call
    regions,        \* what detect_regions returned: None before the call
    processed,      \* what preprocess_for_ocr did: None before the call
    extracted,      \* what extract_text did: None before the call
    region_texts,   \* what extract_from_regions did: None before the call
    result          \* what process_image_callback returned: None before the call

parser_vars ==
    <<code_src, code_text, code_info, reparse_info, problem_src, problem_text, problem_info>>
input_vars == <<image, edge_map, engine, backend>>
call_vars == <<corrected, regions, processed, extracted, region_texts, result>>
rest_vars == <<manager_vars, points_vars, polarity_vars, scan_vars, job_vars>>
later_vars == <<receiver_vars, rest_vars>>
stage_vars == <<parser_vars, input_vars, call_vars, engine_vars>>
vars == <<stage_vars, later_vars>>

InitCodeWith(sources) ==
    /\ code_src \in sources
    /\ code_text = CodeText(code_src)
    /\ code_info = None
    /\ reparse_info = None

InitProblemWith(sources) ==
    /\ problem_src \in sources
    /\ problem_text = ProblemText(problem_src)
    /\ problem_info = None

InitStagesWith(images, edge_maps, engines, backends) ==
    /\ image \in images
    /\ edge_map \in edge_maps
    /\ engine \in engines
    /\ backend \in backends
    /\ corrected = None
    /\ regions = None
    /\ processed = None
    /\ extracted = None
    /\ region_texts = None
    /\ result = None
    /\ configs = [text_type \in TextTypes |-> Configs(text_type)]
    /\ code_char_whitelist = CodeCharWhitelist
    /\ config_log = {}

\* The receiver after n uploads, one after the other, that no worker has
\* seen, for an n of counts; InitLater: idle, with nothing to upload
InitReceiverWith(counts, uploads) ==
    /\ \E n \in counts :
          /\ image_queue = [i \in 1..n |-> i]
          /\ queued = [i \in 1..n |-> i]
          /\ next_image = n + 1
          /\ success_for = 1..n
          /\ processing_stats = [received_count |-> n, processed_count |-> 0, error_count |-> 0]
    /\ uploads_left \in uploads
    /\ upload_pc = [u \in Uploaders |-> "idle"]
    /\ upload_of = [u \in Uploaders |-> 0]
    /\ worker_pc = "poll"
    /\ current = None
    /\ taken = <<>>
    /\ last_outcome = None

\* SolutionManager.__init__
InitManager ==
    /\ solution_history = <<>>
    /\ current_problem_hash = None
    /\ current_solution = None
    /\ last_call = None

\* Everything but the receiver as it is constructed
InitPoints == pts = <<>> /\ rect = None
InitPolarity == gray = <<>> /\ stepped = <<>>
InitScan == scan_lang = "python" /\ params_text = "" /\ scan_trace = None
\* The instances as constructed, and every worker between two images
InitJobsWith(counts) ==
    /\ attributes = [component \in Components |-> {}]
    /\ jobs = [w \in Workers |-> IdleJob]
    /\ jobs_left \in counts
    /\ records = {}
InitJobs == InitJobsWith({0})
InitRest == InitManager /\ InitPoints /\ InitPolarity /\ InitScan /\ InitJobs
InitLater == InitReceiverWith({0}, {0}) /\ InitRest
InitImageWith(images, edge_maps, engines, backends) ==
    InitStagesWith(images, edge_maps, engines, backends) /\ InitLater

\* No text and no image
InitNoText == InitCodeWith({NoCode}) /\ InitProblemWith({NoProblem})
InitNoImage == InitImageWith({None}, {NoEdges}, {NoEngine}, {FALSE})

\* code_info = code_parser.parse(code_text)
ParseCode ==
    /\ code_info = None
    /\ code_info' = Some(CodeParse(code_text))
    /\ UNCHANGED <<code_src, code_text, reparse_info, problem_src, problem_text, problem_info>>
    /\ UNCHANGED <<input_vars, call_vars, engine_vars, later_vars>>

\* code_parser.parse(code_info['function_signature'])
ReparseSignature ==
    /\ code_info # None
    /\ reparse_info = None
    /\ code_info[1].function_signature # ""
    /\ reparse_info' = Some(CodeParse(code_info[1].function_signature))
    /\ UNCHANGED <<code_src, code_text, code_info, problem_src, problem_text, problem_info>>
    /\ UNCHANGED <<input_vars, call_vars, engine_vars, later_vars>>

\* problem_info = problem_parser.parse(problem_text)
ParseProblem ==
    /\ problem_info = None
    /\ problem_info' = Some(ProblemParse(problem_text))
    /\ UNCHANGED <<code_src, code_text, code_info, reparse_info, problem_src, problem_text>>
    /\ UNCHANGED <<input_vars, call_vars, engine_vars, later_vars>>

\* Short texts, the empty one among them, given to both parsers
ShortSources == {CodeSource("text", "", "", <<>>, txt) : txt \in ShortTexts(MaxLen) \cup {"def f(a):"}}
ShortProblems ==
    {ProblemSource("text", "", "", <<>>, <<>>, <<>>, txt) : txt \in ShortTexts(MaxLen)}

Init == InitCodeWith(ShortSources) /\ InitProblemWith(ShortProblems) /\ InitNoImage

Next == ParseCode \/ ReparseSignature \/ ParseProblem

Spec == Init /\ [][Next]_vars

\* The code parser on written signatures
InitCode == InitCodeWith(CodeSources) /\ InitProblemWith({NoProblem}) /\ InitNoImage

NextCode == ParseCode \/ ReparseSignature

SpecCode == InitCode /\ [][NextCode]_vars

\* The problem parser on written problems
InitProblem == InitCodeWith({NoCode}) /\ InitProblemWith(ProblemSources) /\ InitNoImage

NextProblem == ParseProblem

SpecProblem == InitProblem /\ [][NextProblem]_vars

\* Both parsers: the written signatures with no problem text, and the written
\* problems with a short signature
InitParsers ==
    /\ \/ InitCodeWith(CodeSources) /\ InitProblemWith({NoProblem})
       \/ InitCodeWith({CodeSource("text", "", "", <<>>, "def f(a):")})
              /\ InitProblemWith(ProblemSources)
    /\ InitNoImage

NextParsers == ParseCode \/ ParseProblem

SpecParsers == InitParsers /\ [][NextParsers]_vars

\* correct_perspective(image), for an image with pixels
CorrectPerspectiveCall ==
    /\ corrected = None
    /\ ~InvalidImage(image)
    /\ corrected' = Some(CorrectPerspective(image[1], edge_map))
    /\ UNCHANGED <<parser_vars, input_vars, later_vars>>
    /\ UNCHANGED <<regions, processed, extracted, region_texts, result>>
    /\ UNCHANGED engine_vars

\* detect_regions(image), for an image with pixels
DetectRegionsCall ==
    /\ regions = None
    /\ ~InvalidImage(image)
    /\ regions' = Some(DetectRegions(image[1]))
    /\ UNCHANGED <<parser_vars, input_vars, later_vars>>
    /\ UNCHANGED <<corrected, processed, extracted, region_texts, result>>
    /\ UNCHANGED engine_vars

\* preprocess_for_ocr(image)
PreprocessForOcrCall ==
    /\ processed = None
    /\ processed' = Some(PreprocessForOcr(image, edge_map))
    /\ UNCHANGED <<parser_vars, input_vars, later_vars>>
    /\ UNCHANGED <<corrected, regions, extracted, region_texts, result>>
    /\ UNCHANGED engine_vars

\* extract_text(image, text_type)
\* The pairs a set of regions makes extract_text hand to Tesseract, and the
\* text types it is called with
HandedFor(called) == {<<TextTypeOf(kv[1]), ConfigFor(TextTypeOf(kv[1]))>> : kv \in called}
TypesOf(called) == {TextTypeOf(kv[1]) : kv \in called}

\* The regions extract_text can have been called for when a loop over the
\* regions ends: all of them, or, when the image of one of them makes the
\* call raise, some of the others (those the dict holds before it)
CalledOf(regions_dict) ==
    IF \A kv \in regions_dict : ~PreprocessRaises(kv[2]) THEN {regions_dict}
    ELSE SUBSET {kv \in regions_dict : ~PreprocessRaises(kv[2])}

ExtractTextCall ==
    /\ image # None
    /\ \E text_type \in TextTypes :
          /\ extracted' = Some([text_type |-> text_type,
                                did |-> ExtractText(image[1], text_type, engine)])
          /\ configs' = IF PreprocessRaises(image[1]) THEN configs
                        ELSE ConfigsAfter(configs, text_type)
          /\ config_log' = IF PreprocessRaises(image[1]) THEN config_log
                           ELSE config_log \cup {<<text_type, ConfigFor(text_type)>>}
    /\ code_char_whitelist' = code_char_whitelist
    /\ UNCHANGED <<parser_vars, input_vars, later_vars>>
    /\ UNCHANGED <<corrected, regions, processed, region_texts, result>>

\* extract_from_regions(regions_dict)
ExtractFromRegionsCall ==
    /\ image # None
    /\ \E regions_dict \in RegionDicts(image[1]) :
          /\ region_texts' = Some([regions_dict |-> regions_dict,
                                   did |-> ExtractFromRegions(regions_dict, engine)])
          /\ \E called \in CalledOf(regions_dict) :
                /\ configs' = ConfigsAfterAll(configs, TypesOf(called))
                /\ config_log' = config_log \cup HandedFor(called)
    /\ code_char_whitelist' = code_char_whitelist
    /\ UNCHANGED <<parser_vars, input_vars, later_vars>>
    /\ UNCHANGED <<corrected, regions, processed, extracted, result>>

\* process_image_callback(img, metadata)
ProcessImageCallbackCall ==
    /\ result = None
    /\ result' = Some(ProcessImageCallback(image, edge_map, engine, backend))
    /\ IF PreprocessForOcr(image, edge_map).raised
       THEN UNCHANGED <<configs, config_log>>
       ELSE /\ configs' = ConfigsAfterAll(configs, TypesOf(PreprocessForOcr(image, edge_map).value))
            /\ config_log' = config_log \cup HandedFor(PreprocessForOcr(image, edge_map).value)
    /\ code_char_whitelist' = code_char_whitelist
    /\ UNCHANGED <<parser_vars, input_vars, later_vars>>
    /\ UNCHANGED <<corrected, regions, processed, extracted, region_texts>>

\* The region segmenter on the images
InitRegions ==
    /\ InitNoText
    /\ \E h \in 1..MaxH, w \in 1..MaxW :
          \E blobs \in BlobSeqs(h, w, MaxBlobs) :
             InitImageWith({Some(Image(h, w, blobs))}, {NoEdges}, {NoEngine}, {FALSE})

NextRegions == DetectRegionsCall

SpecRegions == InitRegions /\ [][NextRegions]_vars

\* The text extractor on region images
InitOcr ==
    /\ InitNoText
    /\ InitImageWith({Some(Image(h, h, <<>>)) : h \in 0..MaxSide}, {NoEdges}, Engines, {FALSE})

NextOcr == ExtractTextCall \/ ExtractFromRegionsCall

SpecOcr == InitOcr /\ [][NextOcr]_vars

\* The pipeline on the frames
InitPipeline ==
    /\ InitNoText
    /\ InitImageWith(Frames, EdgeMaps, {e \in Engines : ~e["GENERAL"].ok}, BOOLEAN)

NextPipeline == CorrectPerspectiveCall \/ PreprocessForOcrCall \/ ProcessImageCallbackCall

SpecPipeline == InitPipeline /\ [][NextPipeline]_vars

(***************************************************************************)
(* The state machine of the receiver: threads of upload_image and the      *)
(* worker take their steps in any order; a step is one operation on the    *)
(* queue or one update of the statistics under stats_lock                  *)
(***************************************************************************)
\* upload_image up to the update of the statistics: a request without an
\* image is answered with an error; data that cannot be decoded raises
\* ValueError, which counts an error and answers with an error
UploadImageBegin(u) ==
    /\ upload_pc[u] = "idle"
    /\ uploads_left > 0
    /\ uploads_left' = uploads_left - 1
    /\ \E request \in Requests :
          IF request = "image"
          THEN /\ upload_of' = [upload_of EXCEPT ![u] = next_image]
               /\ next_image' = next_image + 1
               /\ processing_stats' = Incremented(processing_stats, "received_count")
               /\ upload_pc' = [upload_pc EXCEPT ![u] = "put"]
          ELSE /\ processing_stats' = IF request = "undecodable"
                                      THEN Incremented(processing_stats, "error_count")
                                      ELSE processing_stats
               /\ UNCHANGED <<upload_of, next_image, upload_pc>>
    /\ UNCHANGED <<image_queue, queued, success_for, worker_pc, current, taken, last_outcome>>
    /\ UNCHANGED <<stage_vars, rest_vars>>

\* image_queue.put((image, metadata, filename), block=False)
UploadImagePut(u) ==
    /\ upload_pc[u] = "put"
    /\ IF PutNoWait(image_queue, upload_of[u]).raised
       THEN /\ upload_pc' = [upload_pc EXCEPT ![u] = "full"]
            /\ UNCHANGED <<image_queue, queued>>
       ELSE /\ image_queue' = PutNoWait(image_queue, upload_of[u]).value
            /\ queued' = Append(queued, upload_of[u])
            /\ upload_pc' = [upload_pc EXCEPT ![u] = "respond"]
    /\ UNCHANGED <<uploads_left, next_image, upload_of, success_for, worker_pc, current, taken,
                   last_outcome, processing_stats>>
    /\ UNCHANGED <<stage_vars, rest_vars>>

\* except Full: image_queue.get_nowait(), whose Empty the bare except catches
UploadImageDiscard(u) ==
    /\ upload_pc[u] = "full"
    /\ IF GetNoWait(image_queue).raised
       THEN /\ upload_pc' = [upload_pc EXCEPT ![u] = "respond"]
            /\ UNCHANGED image_queue
       ELSE /\ image_queue' = GetNoWait(image_queue).value.queue
            /\ upload_pc' = [upload_pc EXCEPT ![u] = "put_again"]
    /\ UNCHANGED <<queued, uploads_left, next_image, upload_of, success_for, worker_pc, current,
                   taken, last_outcome, processing_stats>>
    /\ UNCHANGED <<stage_vars, rest_vars>>

\* the second image_queue.put(..., block=False), whose Full the bare except
\* catches
UploadImagePutAgain(u) ==
    /\ upload_pc[u] = "put_again"
    /\ IF PutNoWait(image_queue, upload_of[u]).raised
       THEN UNCHANGED <<image_queue, queued>>
       ELSE /\ image_queue' = PutNoWait(image_queue, upload_of[u]).value
            /\ queued' = Append(queued, upload_of[u])
    /\ upload_pc' = [upload_pc EXCEPT ![u] = "respond"]
    /\ UNCHANGED <<uploads_left, next_image, upload_of, success_for, worker_pc, current, taken,
                   last_outcome, processing_stats>>
    /\ UNCHANGED <<stage_vars, rest_vars>>

\* return jsonify({'status': 'success', ...}), 200
UploadImageRespond(u) ==
    /\ upload_pc[u] = "respond"
    /\ success_for' = success_for \cup {upload_of[u]}
    /\ upload_pc' = [upload_pc EXCEPT ![u] = "idle"]
    /\ upload_of' = [upload_of EXCEPT ![u] = 0]
    /\ UNCHANGED <<image_queue, queued, uploads_left, next_image, worker_pc, current, taken,
                   last_outcome, processing_stats>>
    /\ UNCHANGED <<stage_vars, rest_vars>>

\* process_image_queue: if image_queue.empty(): sleep and continue
WorkerPoll ==
    /\ worker_pc = "poll"
    /\ worker_pc' = IF image_queue = <<>> THEN "poll" ELSE "get"
    /\ UNCHANGED <<image_queue, queued, uploads_left, next_image, upload_pc, upload_of,
                   success_for, current, taken, last_outcome, processing_stats>>
    /\ UNCHANGED <<stage_vars, rest_vars>>

\* image_queue.get(timeout=1): Empty, when the time is over, goes to the
\* outer except clause, which counts an error
WorkerGet ==
    /\ worker_pc = "get"
    /\ IF GetNoWait(image_queue).raised
       THEN /\ processing_stats' = Incremented(processing_stats, "error_count")
            /\ worker_pc' = "poll"
            /\ UNCHANGED <<image_queue, current, taken>>
       ELSE /\ image_queue' = GetNoWait(image_queue).value.queue
            /\ current' = Some(GetNoWait(image_queue).value.item)
            /\ taken' = Append(taken, GetNoWait(image_queue).value.item)
            /\ worker_pc' = "callback"
            /\ UNCHANGED processing_stats
    /\ UNCHANGED <<queued, uploads_left, next_image, upload_pc, upload_of, success_for, last_outcome>>
    /\ UNCHANGED <<stage_vars, rest_vars>>

\* result = process_callback(image, metadata), in its try statement
WorkerCallback ==
    /\ worker_pc = "callback"
    /\ \E outcome \in CallbackOutcomes :
          /\ last_outcome' = Some(outcome)
          /\ worker_pc' = AfterCallback(outcome)
    /\ UNCHANGED <<image_queue, queued, uploads_left, next_image, upload_pc, upload_of,
                   success_for, current, taken, processing_stats>>
    /\ UNCHANGED <<stage_vars, rest_vars>>

\* with stats_lock: processing_stats['processed_count'] += 1, and back to
\* the head of the loop
WorkerStats ==
    /\ worker_pc = "stats"
    /\ processing_stats' = Incremented(processing_stats, "processed_count")
    /\ current' = None
    /\ worker_pc' = "poll"
    /\ UNCHANGED <<image_queue, queued, uploads_left, next_image, upload_pc, upload_of,
                   success_for, taken, last_outcome>>
    /\ UNCHANGED <<stage_vars, rest_vars>>

\* The receiver with an empty queue, a queue with one place left and a full
\* queue
InitReceiver ==
    /\ InitNoText
    /\ InitStagesWith({None}, {NoEdges}, {NoEngine}, {FALSE})
    /\ InitReceiverWith({0, QueueMaxsize - 1, QueueMaxsize}, {MaxUploads})
    /\ InitRest

NextReceiver ==
    \/ \E u \in Uploaders :
          \/ UploadImageBegin(u)
          \/ UploadImagePut(u)
          \/ UploadImageDiscard(u)
          \/ UploadImagePutAgain(u)
          \/ UploadImageRespond(u)
    \/ WorkerPoll
    \/ WorkerGet
    \/ WorkerCallback
    \/ WorkerStats

SpecReceiver == InitReceiver /\ [][NextReceiver]_vars


(***************************************************************************)
(* The solution manager's state machine: process_problem and               *)
(* refine_solution are called one after the other, in any order.           *)
(***************************************************************************)
\* The manager's attributes as one record
Self == Manager(solution_history, current_problem_hash, current_solution)

\* The state after a call, and the call remembered with the history before it
AfterCall(name, called) ==
    /\ Len(called.self.solution_history) <= MaxSolutions
    /\ solution_history' = called.self.solution_history
    /\ current_problem_hash' = called.self.current_problem_hash
    /\ current_solution' = called.self.current_solution
    /\ last_call' = Some([name |-> name, hit |-> called.hit, outcome |-> called.outcome,
                          history |-> solution_history])
    /\ UNCHANGED <<stage_vars, receiver_vars, points_vars, polarity_vars, scan_vars, job_vars>>

\* What refine_code may do when _fix_invalid_code calls it; it is called for
\* invalid code without an 'error' key when ai.auto_fix_invalid is set
FixesFor(generation, auto_fix_invalid) ==
    IF ~generation.raises /\ ~generation.is_valid /\ ~generation.error /\ auto_fix_invalid
    THEN Generations
    ELSE {[raises |-> TRUE, error |-> FALSE, is_valid |-> FALSE]}

ProcessProblemCall ==
    \E problem \in ProblemInfos, code \in CodeInfos, force_regenerate \in BOOLEAN,
       generation \in Generations, auto_fix_invalid \in BOOLEAN :
      \E fix \in FixesFor(generation, auto_fix_invalid) :
        AfterCall("process_problem",
                  ProcessProblem(Self, problem, code, force_regenerate, generation,
                                 auto_fix_invalid, fix))

RefineSolutionCall ==
    \E retrievable \in BOOLEAN, generation \in Generations :
        AfterCall("refine_solution", RefineSolution(Self, retrievable, generation))

InitSolutions ==
    /\ InitNoText
    /\ InitStagesWith({None}, {NoEdges}, {NoEngine}, {FALSE})
    /\ InitLater

NextSolutions == ProcessProblemCall \/ RefineSolutionCall

SpecSolutions == InitSolutions /\ [][NextSolutions]_vars


(***************************************************************************)
(* _order_points and the polarity step, each called on its input           *)
(***************************************************************************)
OrderPointsCall ==
    /\ rect = None
    /\ pts # <<>>
    /\ rect' = Some(OrderPoints(pts))
    /\ UNCHANGED <<pts, stage_vars, receiver_vars, manager_vars, polarity_vars, scan_vars, job_vars>>

InitOrderPoints ==
    /\ InitNoText
    /\ InitStagesWith({None}, {NoEdges}, {NoEngine}, {FALSE})
    /\ InitReceiverWith({0}, {0})
    /\ InitManager
    /\ InitPolarity
    /\ InitScan
    /\ InitJobs
    /\ pts \in Quadrilaterals
    /\ rect = None

NextOrderPoints == OrderPointsCall

SpecOrderPoints == InitOrderPoints /\ [][NextOrderPoints]_vars

\* The step of region enhancement, and then the step of OCR preprocessing
\* on the image the first one left
PolarityStepCall ==
    /\ gray # <<>>
    /\ Len(stepped) < 2
    /\ stepped' = Append(stepped, PolarityStep(IF stepped = <<>> THEN gray
                                               ELSE stepped[Len(stepped)]))
    /\ UNCHANGED <<gray, stage_vars, receiver_vars, manager_vars, points_vars, scan_vars, job_vars>>

InitPolaritySteps ==
    /\ InitNoText
    /\ InitStagesWith({None}, {NoEdges}, {NoEngine}, {FALSE})
    /\ InitReceiverWith({0}, {0})
    /\ InitManager
    /\ InitPoints
    /\ InitScan
    /\ InitJobs
    /\ gray \in GrayImages
    /\ stepped = <<>>

NextPolaritySteps == PolarityStepCall

SpecPolaritySteps == InitPolaritySteps /\ [][NextPolaritySteps]_vars


(***************************************************************************)
(* The scanners called on a parameter-list text (not empty: the loop is    *)
(* skipped for an empty text)                                              *)
(***************************************************************************)
ScanCall ==
    /\ scan_trace = None
    /\ params_text # ""
    /\ scan_trace' = Some(ScanTrace(scan_lang, params_text))
    /\ UNCHANGED <<scan_lang, params_text, stage_vars, receiver_vars, manager_vars,
                   points_vars, polarity_vars, job_vars>>

InitScanners ==
    /\ InitNoText
    /\ InitStagesWith({None}, {NoEdges}, {NoEngine}, {FALSE})
    /\ InitReceiverWith({0}, {0})
    /\ InitManager
    /\ InitPoints
    /\ InitPolarity
    /\ InitJobs
    /\ scan_lang \in {"python", "java", "cpp"}
    /\ params_text \in ParamTexts(MaxScan) \ {""}
    /\ scan_trace = None

NextScanners == ScanCall

SpecScanners == InitScanners /\ [][NextScanners]_vars


(***************************************************************************)
(* The workers: each takes an image and runs the stages of the callback on *)
(* it, one step at a time, while the other workers run theirs.             *)
(***************************************************************************)
\* What no step of the stages changes
JobFrame ==
    UNCHANGED <<parser_vars, input_vars, call_vars, receiver_vars, manager_vars,
                points_vars, polarity_vars, scan_vars>>

\* The callback returns for the image of worker w
Finished(w, returned) ==
    /\ records' = records \cup {<<jobs[w].input, returned>>}
    /\ jobs' = [jobs EXCEPT ![w] = IdleJob]

\* process_image_callback(img, metadata) is called
TakeImage(w) ==
    /\ jobs[w].pc = "idle"
    /\ jobs_left > 0
    /\ jobs_left' = jobs_left - 1
    /\ \E input \in JobInputs : jobs' = [jobs EXCEPT ![w] = Job("preprocess", input, {}, {})]
    /\ UNCHANGED <<attributes, records, engine_vars>>
    /\ JobFrame

\* 1. processed_regions = image_processor.preprocess_for_ocr(img)
PreprocessImage(w) ==
    /\ jobs[w].pc = "preprocess"
    /\ LET processed_regions == PreprocessForOcr(jobs[w].input.image, jobs[w].input.edge_map)
       IN  IF processed_regions.raised
           THEN Finished(w, [error |-> processed_regions.error])
           ELSE /\ jobs' = [jobs EXCEPT ![w] = Job("ocr", @.input, processed_regions.value, {})]
                /\ UNCHANGED records
    /\ attributes' = AttributesAfter(attributes, "image_processor", jobs[w].input.image)
    /\ UNCHANGED <<jobs_left, engine_vars>>
    /\ JobFrame

\* 2. One pass of the loop over processed_regions: ocr_engine.extract_text
ExtractRegion(w) ==
    /\ jobs[w].pc = "ocr"
    /\ \E kv \in jobs[w].processed_regions :
          /\ kv[1] \notin Keys(jobs[w].text_results)
          /\ LET text_type == TextTypeOf(kv[1])
                 did == ExtractText(kv[2], text_type, jobs[w].input.engine)
             IN  IF did.outcome.raised
                 THEN /\ Finished(w, [error |-> did.outcome.error])
                      /\ UNCHANGED <<configs, config_log>>
                 ELSE /\ jobs' = [jobs EXCEPT ![w].text_results =
                                      @ \cup {<<kv[1], ReadUnder(did, text_type)>>}]
                      /\ configs' = ConfigsAfter(configs, text_type)
                      /\ config_log' = config_log \cup {<<text_type, did.config[1]>>}
                      /\ UNCHANGED records
    /\ code_char_whitelist' = code_char_whitelist
    /\ UNCHANGED <<attributes, jobs_left>>
    /\ JobFrame

\* 3. problem_parser.parse and code_parser.parse on the texts of the regions
ParseTexts(w) ==
    /\ jobs[w].pc = "ocr"
    /\ Keys(jobs[w].text_results) = Keys(jobs[w].processed_regions)
    /\ Finished(w, [problem_info |-> ProblemParse(GetOr(jobs[w].text_results, "PROBLEM", "")),
                    code_info |-> CodeParse(GetOr(jobs[w].text_results, "CODE", "")),
                    raw_ocr |-> jobs[w].text_results])
    /\ attributes' =
           AttributesAfter(AttributesAfter(attributes, "problem_parser",
                                           GetOr(jobs[w].text_results, "PROBLEM", "")),
                           "code_parser", GetOr(jobs[w].text_results, "CODE", ""))
    /\ UNCHANGED <<jobs_left, engine_vars>>
    /\ JobFrame

InitWorkers ==
    /\ InitNoText
    /\ InitStagesWith({None}, {NoEdges}, {NoEngine}, {FALSE})
    /\ InitReceiverWith({0}, {0})
    /\ InitManager
    /\ InitPoints
    /\ InitPolarity
    /\ InitScan
    /\ InitJobsWith({MaxJobs})

NextWorkers ==
    \E w \in Workers :
        \/ TakeImage(w)
        \/ PreprocessImage(w)
        \/ ExtractRegion(w)
        \/ ParseTexts(w)

SpecWorkers == InitWorkers /\ [][NextWorkers]_vars

(***************************************************************************)
(* Properties of the code parser                                           *)
(***************************************************************************)
\* Whether s has a comma that no pair of the brackets open, close encloses,
\* from its i-th character on and depth brackets deep
RECURSIVE CommaOutsideFrom(_, _, _, _, _)
CommaOutsideFrom(s, open, close, i, depth) ==
    IF i > Len(s) THEN FALSE
    ELSE IF Ch(s, i) = "," /\ depth = 0 THEN TRUE
    ELSE CommaOutsideFrom(s, open, close, i + 1,
                          IF Ch(s, i) = open THEN depth + 1
                          ELSE IF Ch(s, i) = close THEN depth - 1 ELSE depth)

CommaOutside(s, open, close) == CommaOutsideFrom(s, open, close, 1, 0)

\* Whether the brackets open, close of s are balanced, from its i-th
\* character on and depth brackets deep
RECURSIVE BalancedFrom(_, _, _, _, _)
BalancedFrom(s, open, close, i, depth) ==
    IF depth < 0 THEN FALSE
    ELSE IF i > Len(s) THEN depth = 0
    ELSE BalancedFrom(s, open, close, i + 1,
                      IF Ch(s, i) = open THEN depth + 1
                      ELSE IF Ch(s, i) = close THEN depth - 1 ELSE depth)

Balanced(s, open, close) == BalancedFrom(s, open, close, 1, 0)

\* The brackets of the types of a written source
TypeOpen(form) == IF form = "python" THEN "[" ELSE "<"
TypeClose(form) == IF form = "python" THEN "]" ELSE ">"

\* s without its blanks
Squeeze(s) == Replace(s, " ", "")

\* A written Python parameter that is plain: balanced square brackets, no
\* comma outside them, no closing parenthesis, and a type without '='
PlainParam(p) ==
    /\ Balanced(WrittenParam("python", p), "[", "]")
    /\ ~CommaOutside(WrittenParam("python", p), "[", "]")
    /\ ~Contains(WrittenParam("python", p), ")")
    /\ ~Contains(p.type, "=")

\* A written Python source within the amended C1: the header is `class C:`,
\* every parameter is plain, the return type has no colon, and the clean-up
\* leaves the text as it is
PlainPython(src, text) ==
    /\ src.form = "python"
    /\ src.header = "class Solution:"
    /\ \A k \in 1..Len(src.params) : PlainParam(src.params[k])
    /\ ~Contains(src.ret, ":")
    /\ CleanCodeText(text) = text

\* What C1 says parse returns for a written source
AsWritten(info, src) ==
    /\ info.language = src.form
    /\ info.function_name = src.name
    /\ info.parameters = src.params
    /\ info.return_type = src.ret

\* The text of Scenario A and what the specification says is returned for it
ScenarioA ==
    "class Solution:\n    def twoSum(self, nums: List[int], target: int) -> List[int]:\n        pass"
ScenarioAParameters ==
    << Param("self", "", None), Param("nums", "List[int]", None), Param("target", "int", None) >>

\* C1 as stated: on a Python class header followed by `def NAME(P1, ..., Pn)
\* -> RET:`, parse returns language 'python', function_name NAME, one record
\* per Pi in order with the written name, type and default, and return_type
\* RET.  Refuted by a default with a comma outside square brackets or with
\* an unbalanced one, by a text the clean-up rewrites, by a ')' before a ':'
\* inside a parameter and by a header `class C(B):` above a '{}' default.
C1_Original ==
    (code_info # None /\ code_src.form = "python") => AsWritten(code_info[1], code_src)

\* C1 amended: the same for the sources whose header is `class C:`, whose
\* parameters have balanced square brackets, no comma outside them, no ')'
\* and no '=' in the type, whose return type has no ':' and whose text the clean-up leaves
\* unchanged; for the Scenario A text the result is the one of the
\* specification.
C1_PythonSignature ==
    code_info # None =>
        /\ PlainPython(code_src, code_text) => AsWritten(code_info[1], code_src)
        /\ code_text = ScenarioA =>
               /\ code_info[1].language = "python"
               /\ code_info[1].function_name = "twoSum"
               /\ code_info[1].parameters = ScenarioAParameters
               /\ code_info[1].return_type = "List[int]"

\* A parsed plain source with three parameters, a bracketed type with a
\* comma inside and a default
C1_Witness ==
    /\ code_info # None
    /\ PlainPython(code_src, code_text)
    /\ Len(code_src.params) = 3
    /\ \E k \in 1..3 : code_src.params[k].type = "Dict[str, int]"
    /\ \E k \in 1..3 : code_src.params[k].default = Some("[1, 2]")
    /\ code_info[1].parameters = code_src.params

\* C2 as stated: a Java header `ACCESS TYPE NAME(PARAMS) {`, TYPE possibly an
\* array type, gives language 'java', function_name NAME, return_type TYPE
\* and one (name, type) record per written parameter in order (the types
\* compared blanks aside, which the clean-up adds around '<').
C2_Original ==
    (code_info # None /\ code_src.form = "java") =>
        /\ code_info[1].language = "java"
        /\ code_info[1].function_name = code_src.name
        /\ code_info[1].return_type = code_src.ret
        /\ Len(code_info[1].parameters) = Len(code_src.params)
        /\ \A k \in 1..Len(code_src.params) :
               /\ code_info[1].parameters[k].name = code_src.params[k].name
               /\ Squeeze(code_info[1].parameters[k].type) = Squeeze(code_src.params[k].type)

C4_Original ==
    reparse_info # None =>
        /\ reparse_info[1].function_name = code_info[1].function_name
        /\ reparse_info[1].parameters = code_info[1].parameters
        /\ reparse_info[1].return_type = code_info[1].return_type

\* C5: for the empty text both parsers return their empty defaults.
C5_EmptyInput ==
    /\ (code_info # None /\ code_text = "") =>
           code_info[1] = [language |-> "unknown", function_signature |-> "",
                           function_name |-> "", parameters |-> <<>>,
                           return_type |-> "", class_context |-> ""]
    /\ (problem_info # None /\ problem_text = "") =>
           problem_info[1] = [title |-> "", description |-> "", examples |-> <<>>,
                              constraints |-> <<>>]

\* Both parsers have returned for the empty text
C5_Witness ==
    /\ code_text = "" /\ code_info # None
    /\ problem_text = "" /\ problem_info # None

(***************************************************************************)
(* Properties of the problem parser                                        *)
(***************************************************************************)
\* The record the parser should return for a written example
WrittenExample(e) ==
    Example(e.input, e.output, IF e.explanation # None THEN e.explanation[1] ELSE "")

\* Whether line is one of the lines of s, blanks around it aside
HasLine(s, line) ==
    \E k \in 1..Len(Split(s, "\n")) : Strip(Split(s, "\n")[k]) = line

\* Example\s*\d+ : the words that open an example block
ExampleMention == Cat(<<Lit("Example"), S0, Plus(D)>>)

\* Whether the description holds a block among matches, the example blocks
\* of text
HoldsBlock(description, text, matches) ==
    \E k \in 1..Len(matches) :
        /\ Strip(GroupStr(text, matches[k], 1)) # ""
        /\ Contains(description, Strip(GroupStr(text, matches[k], 1)))

\* The text after the title line, when text begins with it: None otherwise
AfterTitleOf(text, m) == IF m.ok THEN Some(Slice(text, m.e, Len(text) + 1)) ELSE None
AfterTitle(text, title) == AfterTitleOf(text, MatchAt(TitleLineRe(title), text, 1))

\* C6 as stated: a text with k headers 'Example <n>:' gives exactly k example
\* records, one per header in order; none without a header.
C6_Original ==
    (problem_info # None /\ problem_src.form = "written") =>
        Len(problem_info[1].examples) = Len(problem_src.examples)

\* C7 as stated: in each block, input is the trimmed text after 'Input:' up
\* to 'Output:', output the trimmed text after 'Output:' up to
\* 'Explanation:', explanation the trimmed text after 'Explanation:' to the
\* end of the block, and a sub-field without its label is ''.  (Stated of
\* the texts whose blocks are the written ones, one record per header.)
C7_Original ==
    (/\ problem_info # None
     /\ problem_src.form = "written"
     /\ Len(problem_info[1].examples) = Len(problem_src.examples))
    => \A k \in 1..Len(problem_src.examples) :
           problem_info[1].examples[k] = WrittenExample(problem_src.examples[k])

\* C8 as stated: for a text whose first line is '<n>. <Title>' or '<Title>',
\* the title is that line's phrase without the prefix: one line, with no
\* text of a following line, whatever the following lines hold.
C8_Original ==
    (problem_info # None /\ problem_src.form = "written") =>
        problem_info[1].title = problem_src.title

\* C9 as stated: a 'Constraints:' header followed by k non-empty lines gives
\* exactly those k entries in order, trimmed; without the header constraints
\* is empty.
C9_Original ==
    (problem_info # None /\ problem_src.form = "written") =>
        problem_info[1].constraints = problem_src.constraints

ContentBlocks(img) ==
    {img.blobs[i] : i \in {j \in 1..Len(img.blobs) :
                              100 * ((img.blobs[j][3] - 1) * (img.blobs[j][4] - 1)) > img.h * img.w}}
Tops(blocks) == {b[2] : b \in blocks}

\* C11: when the image has at least two content blocks (contours of more
\* than 1% of its area), detect_regions returns as Problem the bounding box
\* of a content block of the smallest top and as Code the bounding box of a
\* content block of the largest top; of two content blocks one above the
\* other, the higher is Problem and the lower is Code.
C11_TopAndBottom ==
    (regions # None /\ Cardinality(ContentBlocks(image[1])) >= 2) =>
        /\ Keys(regions[1]) = {"PROBLEM", "CODE"}
        /\ Get(regions[1], "PROBLEM") \in ContentBlocks(image[1])
        /\ Get(regions[1], "PROBLEM")[2] = Min(Tops(ContentBlocks(image[1])))
        /\ Get(regions[1], "CODE") \in ContentBlocks(image[1])
        /\ Get(regions[1], "CODE")[2] = Max(Tops(ContentBlocks(image[1])))
        /\ \A a, b \in ContentBlocks(image[1]) :
              (ContentBlocks(image[1]) = {a, b} /\ a[2] + a[4] <= b[2]) =>
                  /\ Get(regions[1], "PROBLEM") = a
                  /\ Get(regions[1], "CODE") = b

\* detect_regions has run on an image of two content blocks, the lower one
\* reported first
C11_Witness ==
    /\ regions # None
    /\ Len(image[1].blobs) = 2
    /\ Cardinality(ContentBlocks(image[1])) = 2
    /\ image[1].blobs[1][2] > image[1].blobs[2][2]
    /\ Get(regions[1], "PROBLEM") = image[1].blobs[2]
    /\ Get(regions[1], "CODE") = image[1].blobs[1]

\* Whether a box (x, y, w, h) lies within the image and holds a pixel
WithinImage(box, img) ==
    /\ 0 <= box[1] /\ 0 <= box[2]
    /\ box[1] + box[3] <= img.w
    /\ box[2] + box[4] <= img.h
NonDegenerate(box) == box[3] > 0 /\ box[4] > 0

\* C12: every bounding box detect_regions returns, for every image of height
\* and width at least 1, lies within the image and is non-degenerate (w > 0
\* and h > 0).
C12_Original ==
    (regions # None /\ image[1].h >= 1 /\ image[1].w >= 1) =>
        \A kv \in regions[1] : WithinImage(kv[2], image[1]) /\ NonDegenerate(kv[2])

(***************************************************************************)
(* Properties of the geometric normaliser                                  *)
(***************************************************************************)
\* C13: correct_perspective returns the very image it was given, and raises
\* nothing, whenever the edge map has no contour or the polygon
\* approximating the largest contour has not exactly four vertices.
C13_ImageItself ==
    (corrected # None /\ (edge_map.contours = 0 \/ edge_map.vertices # 4)) =>
        /\ ~corrected[1].raised
        /\ corrected[1].value.same
        /\ corrected[1].value.image = image[1]

\* correct_perspective has run on an edge map whose largest contour is
\* approximated by five vertices
C13_Witness ==
    /\ corrected # None
    /\ edge_map.contours > 0
    /\ edge_map.vertices = 5
    /\ corrected[1] = SameImage(image[1])

(***************************************************************************)
(* Properties of the text extractor                                        *)
(***************************************************************************)
\* What the engine's reply makes of a region: its text, "" when it fails
ReadingOf(region_type) ==
    IF engine[TextTypeOf(region_type)].ok THEN engine[TextTypeOf(region_type)].text ELSE ""

\* C14: whenever the call to the OCR engine fails (the engine being
\* unavailable or raising), for whichever text type, extract_text returns ""
\* and raises nothing; so extract_from_regions, given region images the
\* engine can be called on, returns an entry for every region of its input,
\* the text read for a region whose call succeeds and "" for one whose call
\* fails.
C14_EngineFailure ==
    /\ (extracted # None /\ extracted[1].did.failed) =>
           extracted[1].did.outcome = Returns("")
    /\ (region_texts # None
            /\ \A kv \in region_texts[1].regions_dict : ~PreprocessRaises(kv[2])) =>
           /\ ~region_texts[1].did.raised
           /\ Keys(region_texts[1].did.value) = Keys(region_texts[1].regions_dict)
           /\ \A kv \in region_texts[1].did.value : kv[2] = ReadingOf(kv[1])

\* extract_text has made a call that failed, and extract_from_regions has
\* run on a Problem and a Code region with the engine failing on the Code
\* region alone
C14_Witness ==
    /\ extracted # None
    /\ extracted[1].did.failed
    /\ extracted[1].did.config # None
    /\ region_texts # None
    /\ Keys(region_texts[1].regions_dict) = {"PROBLEM", "CODE"}
    /\ engine["PROBLEM"].ok
    /\ ~engine["CODE"].ok
    /\ region_texts[1].did = Returns({<<"PROBLEM", "Two Sum">>, <<"CODE", "">>})

(***************************************************************************)
(* Properties of the pipeline                                              *)
(***************************************************************************)
\* C15: given no image (None) or an image of size zero, preprocess_for_ocr
\* raises its ValueError to the caller, no step of the normaliser, the
\* segmenter or the enhancement having run, and process_image_callback
\* returns a result that holds the 'error' entry alone: no problem record,
\* no code record.
C15_InvalidImage ==
    (image = None \/ image[1].h * image[1].w = 0) =>
        /\ processed # None => processed[1] = Raises("Invalid input image")
        /\ result # None =>
              /\ DOMAIN result[1] = {"error"}
              /\ result[1].error = "Invalid input image"

\* preprocess_for_ocr and process_image_callback have run on an image of
\* size zero
C15_Witness ==
    /\ image # None
    /\ image[1].h * image[1].w = 0
    /\ processed # None
    /\ processed[1].raised
    /\ result # None
    /\ result[1] = [error |-> "Invalid input image"]

(***************************************************************************)
(* Properties of the records of both parsers                               *)
(***************************************************************************)
\* C16: on every input and path, the record ProblemParser.parse returns has
\* exactly the fields title, description, examples and constraints, each
\* example exactly input, output and explanation; the record
\* CodeParser.parse returns has exactly the fields language, function_name,
\* parameters, return_type, class_context and function_signature, each
\* parameter exactly name, type and default, and its language is one of
\* python, java, cpp, javascript, unknown.
C16_RecordShapes ==
    /\ problem_info # None =>
          /\ DOMAIN problem_info[1] = {"title", "description", "examples", "constraints"}
          /\ \A i \in 1..Len(problem_info[1].examples) :
                DOMAIN problem_info[1].examples[i] = {"input", "output", "explanation"}
    /\ code_info # None =>
          /\ DOMAIN code_info[1] =
                {"language", "function_name", "parameters", "return_type",
                 "class_context", "function_signature"}
          /\ \A i \in 1..Len(code_info[1].parameters) :
                DOMAIN code_info[1].parameters[i] = {"name", "type", "default"}
          /\ code_info[1].language \in {"python", "java", "cpp", "javascript", "unknown"}

\* Both parsers have returned, the code parser a parameter and the problem
\* parser an example
C16_Witness ==
    /\ problem_info # None
    /\ code_info # None
    /\ Len(problem_info[1].examples) > 0
    /\ Len(code_info[1].parameters) > 0
    /\ code_info[1].language = "python"

\* What a configuration handed to Tesseract requests
SingleBlock(config) == Contains(config, "--psm 6")
AutomaticPage(config) == Contains(config, "--psm 3")
KeepsSpaces(config) == Contains(config, "-c preserve_interword_spaces=1")
HasAllowList(config) == Contains(config, "tessedit_char_whitelist")
AllowListOption == "-c tessedit_char_whitelist='" \o CodeCharWhitelist \o "'"

\* C17 as stated: Problem and General request the single-block segmentation
\* mode; Code requests the same mode, the preservation of interword spaces
\* and the fixed allow-list of characters; the allow-list is applied for Code
\* only.
C17_Original ==
    (extracted # None /\ extracted[1].did.config # None) =>
        /\ SingleBlock(extracted[1].did.config[1])
        /\ KeepsSpaces(extracted[1].did.config[1]) <=> extracted[1].text_type = "CODE"
        /\ HasAllowList(extracted[1].did.config[1]) <=> extracted[1].text_type = "CODE"
        /\ extracted[1].text_type = "CODE" =>
              Contains(extracted[1].did.config[1], AllowListOption)

\* C17, amended: Problem requests the single-block segmentation mode and
\* General the automatic page segmentation; Code requests the single-block
\* mode, the preservation of interword spaces and the fixed allow-list of
\* characters; the allow-list is applied for Code only.
C17_Profiles ==
    (extracted # None /\ extracted[1].did.config # None) =>
        /\ SingleBlock(extracted[1].did.config[1]) <=> extracted[1].text_type # "GENERAL"
        /\ AutomaticPage(extracted[1].did.config[1]) <=> extracted[1].text_type = "GENERAL"
        /\ KeepsSpaces(extracted[1].did.config[1]) <=> extracted[1].text_type = "CODE"
        /\ HasAllowList(extracted[1].did.config[1]) <=> extracted[1].text_type = "CODE"
        /\ extracted[1].text_type = "CODE" =>
              Contains(extracted[1].did.config[1], AllowListOption)

\* extract_text has called Tesseract for a Code region
C17_Witness ==
    /\ extracted # None
    /\ extracted[1].text_type = "CODE"
    /\ extracted[1].did.config # None
    /\ HasAllowList(extracted[1].did.config[1])
    /\ extracted[1].did.outcome = Returns("def f(a):")

(***************************************************************************)
(* Properties of the language detection                                    *)
(***************************************************************************)
\* Whether a signature pattern of the language matches the text
SignatureOf(language, text) ==
    IF language = "python"
    THEN Search(PyDefRe, text).ok \/ Search(PyClassRe, text).ok
    ELSE IF language = "java"
    THEN Search(JavaTypeRe, text).ok \/ Search(JavaMethodDetectRe, text).ok
    ELSE IF language = "cpp"
    THEN \/ Contains(text, "#include")
         \/ Search(CppFuncDetectRe, text).ok
         \/ Contains(text, "std::")
    ELSE \/ Search(JsFuncDetectRe, text).ok
         \/ \E kw \in {"const", "var", "let"} : Search(JsBindRe(kw), text).ok

\* The fixed order of the languages
LanguageOrder == <<"python", "java", "cpp", "javascript">>

\* The languages whose signature pattern matches the text, by their place
\* in the order
Matching(text) == {i \in 1..Len(LanguageOrder) : SignatureOf(LanguageOrder[i], text)}

\* What the generic heuristics make of a text
Heuristic(text) ==
    IF Contains(text, "{") /\ Contains(text, "}")
    THEN IF Contains(text, "public") \/ Contains(text, "private") THEN "java" ELSE "cpp"
    ELSE IF Contains(text, ":") /\ Contains(text, "def") THEN "python"
    ELSE "unknown"

\* The language follows the matching patterns
FirstOf(language, matching, text) ==
    IF matching = {} THEN language = Heuristic(text)
    ELSE language = LanguageOrder[Min(matching)]

\* C18: the language detected for a cleaned text is the first of python,
\* java, cpp, javascript whose signature pattern matches it, whatever later
\* language matches too; only when none matches do the generic heuristics
\* apply (braces with 'public' or 'private': java; braces alone: cpp; ':'
\* with 'def': python), and otherwise the language is unknown.
C18_FirstLanguage ==
    (code_info # None /\ code_text # "") =>
        FirstOf(code_info[1].language,
                Matching(CleanCodeText(code_text)), CleanCodeText(code_text))

\* A text that the patterns of java and of cpp both match has been parsed
C18_Witness ==
    /\ code_info # None
    /\ code_info[1].language = "java"
    /\ Matching(CleanCodeText(code_text)) = {2, 3}

(***************************************************************************)
(* Properties of the choice of the segmentation method                     *)
(***************************************************************************)
\* Whether the regions are the two parts of the image cut at row y
SplitAt(regs, img, y) ==
    regs = {<<"PROBLEM", <<0, 0, img.w, y>>>>, <<"CODE", <<0, y, img.w, img.h - y>>>>}

\* Whether both boxes are bounding boxes of content blocks
FromContours(regs, img) ==
    /\ Get(regs, "PROBLEM") \in ContentBlocks(img)
    /\ Get(regs, "CODE") \in ContentBlocks(img)

\* C19: detect_regions always returns exactly one Problem box and one Code
\* box, raising nothing, and both come from one method: from the contour
\* method when there are at least two valid contours; otherwise from the
\* projection split when that method finds a gap; otherwise, also when the
\* layout analysis fails inside, the static split Problem = (0, 0, w, h div 2),
\* Code = (0, h div 2, w, h - h div 2).
C19_OneMethod ==
    regions # None =>
        /\ Keys(regions[1]) = {"PROBLEM", "CODE"}
        /\ Cardinality(regions[1]) = 2
        /\ IF Cardinality(ContentBlocks(image[1])) >= 2
           THEN FromContours(regions[1], image[1])
           ELSE IF ProjectionRegions(image[1]) # {}
           THEN /\ regions[1] = ProjectionRegions(image[1])
                /\ \E y \in 0..image[1].h : SplitAt(regions[1], image[1], y)
           ELSE SplitAt(regions[1], image[1], image[1].h \div 2)

\* detect_regions has run on an image with fewer than two content blocks
\* whose gap starts and gap ends were found but could not be paired (numpy
\* raised inside the layout analysis), and the static split came out
C19_Witness ==
    /\ regions # None
    /\ Cardinality(ContentBlocks(image[1])) < 2
    /\ Len(GapStarts(Gaps(HProjection(image[1])))) > 0
    /\ Len(GapEnds(Gaps(HProjection(image[1])))) > 0
    /\ ProjectionRegions(image[1]) = {}
    /\ SplitAt(regions[1], image[1], image[1].h \div 2)

(***************************************************************************)
(* Properties of the projection split                                      *)
(***************************************************************************)
\* The gap rows of an image, from 0: the rows whose sum is below half the
\* mean row sum
GapRows(img) ==
    {row \in 0..(img.h - 1) :
        2 * img.h * RowSum(img, row) < SumSeq([i \in 1..img.h |-> RowSum(img, i - 1)])}

\* The contiguous runs of gap rows, as <<first row, last row>>
GapRuns(img) ==
    {run \in (0..(img.h - 1)) \X (0..(img.h - 1)) :
        /\ run[1] <= run[2]
        /\ \A row \in run[1]..run[2] : row \in GapRows(img)
        /\ (run[1] - 1) \notin GapRows(img)
        /\ (run[2] + 1) \notin GapRows(img)}
LongestRuns(img) ==
    {run \in GapRuns(img) :
        \A other \in GapRuns(img) : other[2] - other[1] <= run[2] - run[1]}

\* Whether row y is the middle of the run, to the rounding (within one row
\* of the mean of its first and last row)
MidpointOf(run, y) ==
    /\ run[1] + run[2] - 2 <= 2 * y
    /\ 2 * y <= run[1] + run[2] + 2

\* C20: with fewer than two valid contours, whenever the row profile has a
\* gap row the image is split at the midpoint of the longest contiguous run
\* of gap rows, Problem above and Code below; the static half split is used
\* only when the profile has no gap row.
C20_Original ==
    (regions # None /\ Cardinality(ContentBlocks(image[1])) < 2) =>
        IF GapRows(image[1]) = {}
        THEN SplitAt(regions[1], image[1], image[1].h \div 2)
        ELSE \E run \in LongestRuns(image[1]) : \E y \in 0..image[1].h :
                /\ MidpointOf(run, y)
                /\ SplitAt(regions[1], image[1], y)

(***************************************************************************)
(* Properties of the aspect check of the perspective correction            *)
(***************************************************************************)
\* The ratio of the corrected aspect (max_width / max_height) to the
\* original aspect (w / h), as the fraction RatioNum / RatioDen
RatioNum(img, warped) == warped.w * img.h
RatioDen(img, warped) == warped.h * img.w
RatioBelow(img, warped) == 10 * RatioNum(img, warped) < 7 * RatioDen(img, warped)
RatioAbove(img, warped) == 10 * RatioNum(img, warped) > 13 * RatioDen(img, warped)

\* C21: when a polygon of four vertices is found (and the corrected height
\* is not 0, so that the ratio exists), correct_perspective returns the
\* corrected image only if the ratio of the corrected aspect to the original
\* aspect lies between 0.7 and 1.3; for every ratio below 0.7 or above 1.3
\* it returns the image it was given.
C21_AspectGuard ==
    (/\ corrected # None
     /\ edge_map.contours > 0
     /\ edge_map.vertices = 4
     /\ edge_map.warped.h > 0) =>
        /\ ~corrected[1].raised
        /\ ~corrected[1].value.same =>
              /\ corrected[1].value.image = edge_map.warped
              /\ ~RatioBelow(image[1], edge_map.warped)
              /\ ~RatioAbove(image[1], edge_map.warped)
        /\ (RatioBelow(image[1], edge_map.warped) \/ RatioAbove(image[1], edge_map.warped)) =>
              /\ corrected[1].value.same
              /\ corrected[1].value.image = image[1]

\* correct_perspective has found four vertices and a corrected image twice
\* as wide as high in a square image, and has returned the square image
C21_Witness ==
    /\ corrected # None
    /\ edge_map.vertices = 4
    /\ image[1].h = image[1].w
    /\ edge_map.warped.h = 1
    /\ edge_map.warped.w = 2
    /\ corrected[1] = SameImage(image[1])

(***************************************************************************)
(* Properties of the state of the text extractor                           *)
(***************************************************************************)
\* C22: after any sequence of calls of extract_text and extract_from_regions,
\* with any text types, configs and code_char_whitelist have the values the
\* constructor gave them, and every call for a text type has handed the same
\* configuration to the engine (the allow-list option of Code does not
\* accumulate).
C22_ProfilesKept ==
    /\ configs = [text_type \in TextTypes |-> Configs(text_type)]
    /\ code_char_whitelist = CodeCharWhitelist
    /\ \A a, b \in config_log : a[1] = b[1] => a[2] = b[2]

\* extract_text was called for Code, alone and from extract_from_regions,
\* and calls for all three text types have reached the engine
C22_Witness ==
    /\ extracted # None
    /\ extracted[1].text_type = "CODE"
    /\ extracted[1].did.config # None
    /\ region_texts # None
    /\ "CODE" \in Keys(region_texts[1].regions_dict)
    /\ ~region_texts[1].did.raised
    /\ {kv[1] : kv \in config_log} = TextTypes

(***************************************************************************)
(* Properties of the processing worker                                     *)
(***************************************************************************)
\* Whether the elements of a come in b, in the same order
RECURSIVE InOrderWithin(_, _)
InOrderWithin(a, b) ==
    IF a = <<>> THEN TRUE
    ELSE IF b = <<>> THEN FALSE
    ELSE IF Head(a) = Head(b) THEN InOrderWithin(Tail(a), Tail(b))
    ELSE InOrderWithin(a, Tail(b))

\* The number of images in processing
InProcessing == IF current = None THEN 0 ELSE 1

\* C23: the worker takes the next image only when the processing of the
\* previous one is complete (its callback returned or raised and the
\* statistics were recorded): every image taken but the one in processing
\* has been counted as processed, at most one image is in processing, the
\* images are taken in the order in which they were queued, and an exception
\* of the callback never stops the worker.
C23_OneAtATime ==
    /\ worker_pc \in {"poll", "get", "callback", "stats"}
    /\ Len(taken) = processing_stats.processed_count + InProcessing
    /\ current # None <=> worker_pc \in {"callback", "stats"}
    /\ current # None => current[1] = taken[Len(taken)]
    /\ InOrderWithin(taken, queued)

\* The callback raised for an image, the statistics were recorded, and the
\* worker has taken the next image
C23_Witness ==
    /\ last_outcome = Some("raised")
    /\ worker_pc = "callback"
    /\ Len(taken) >= 2
    /\ processing_stats.processed_count = Len(taken) - 1
    /\ current = Some(taken[Len(taken)])

(***************************************************************************)
(* Properties of the upload endpoint                                       *)
(***************************************************************************)
\* The images ever put on the queue
EverQueued == {queued[i] : i \in 1..Len(queued)}

\* C29: whenever the upload endpoint answers with status 'success', the
\* uploaded image has been put on the processing queue (in the place of the
\* oldest image when the queue was full), under every interleaving of
\* concurrent uploads and the worker, and the queue never holds more than
\* 10 images.
C29_Original ==
    /\ Len(image_queue) <= QueueMaxsize
    /\ \A img \in success_for : img \in EverQueued


(***************************************************************************)
(* Properties of the solution manager                                      *)
(***************************************************************************)
\* C30: after any sequence of process_problem and refine_solution calls,
\* current_solution is the last element of solution_history when the history
\* is not empty and None when it is empty; and a process_problem call that
\* takes the cached solution returns current_solution and leaves
\* solution_history as it was before the call.
C30_CurrentIsLast ==
    /\ solution_history = <<>> => current_solution = None
    /\ solution_history # <<>> =>
          current_solution = Some(solution_history[Len(solution_history)])
    /\ last_call # None /\ last_call[1].hit =>
          /\ last_call[1].name = "process_problem"
          /\ last_call[1].outcome = Returns(current_solution[1])
          /\ solution_history = last_call[1].history

\* A cached solution is returned after a fixed solution and a refinement of it
C30_Witness ==
    /\ last_call # None
    /\ last_call[1].hit
    /\ Len(solution_history) >= 2
    /\ \E i \in 1..Len(solution_history) : solution_history[i].is_fix
    /\ solution_history[Len(solution_history)].is_refinement

(***************************************************************************)
(* Properties of _order_points and of the polarity step                    *)
(***************************************************************************)
\* C27: for four distinct points, _order_points returns each of them exactly
\* once, so that the quadrilateral handed to the perspective transform has
\* no repeated corner.
C27_Original ==
    rect # None =>
        \A i \in 1..Len(pts) :
            Cardinality({j \in 1..Len(rect[1]) : rect[1][j] = pts[i]}) = 1

\* C28: the polarity step leaves an image whose mean intensity is at least
\* 128, so that a second application of the step inverts nothing.
C28_Original ==
    /\ Len(stepped) >= 1 => ~IsDarkBackground(stepped[1])
    /\ Len(stepped) = 2 => stepped[2] = stepped[1]

(***************************************************************************)
(* Properties of the code parser on JavaScript                             *)
(***************************************************************************)
\* C25: for JavaScript that binds a function to a variable, as a function
\* expression or as an arrow function, the parser returns language
\* 'javascript', the bound name as function_name and one parameter of empty
\* type for each written name; function_name is never the keyword 'function'.
C25_Original ==
    code_info # None /\ code_src.form \in {"jsfunction", "jsarrow"} =>
        /\ code_info[1].language = "javascript"
        /\ code_info[1].function_name = code_src.name
        /\ code_info[1].parameters = code_src.params
        /\ code_info[1].function_name # "function"

(***************************************************************************)
(* Properties of the parameter-list scanners                               *)
(***************************************************************************)
\* C26: for every parameter-list text the bracket depth is never negative
\* and is zero when the appended end comma is reached, so that the text after
\* the last top-level comma is emitted as the last parameter and the
\* accumulator is empty when the scan ends.
C26_Original ==
    scan_trace # None =>
        LET trace == scan_trace[1]
            n == Len(params_text)
        IN  /\ \A i \in 1..(n + 1) : trace[i].depth >= 0
            /\ trace[n].depth = 0
            /\ trace[n + 1].current_param = ""

(***************************************************************************)
(* Properties of the stages under several workers                          *)
(***************************************************************************)
\* C24: the four components write no instance state while images are
\* processed, and the records of every image are the records the callback
\* makes of that image alone, whether the images are processed one after
\* the other, in any order, or at the same time by workers that share the
\* instances.
C24_NoSharedState ==
    /\ attributes = [component \in Components |-> {}]
    /\ configs = [text_type \in TextTypes |-> Configs(text_type)]
    /\ code_char_whitelist = CodeCharWhitelist
    /\ \A done \in records : done[2] = RecordsOf(done[1])

\* Two workers are reading the regions of two different images while the
\* records of a third image are already made
C24_Witness ==
    /\ \A w \in Workers : jobs[w].pc = "ocr" /\ jobs[w].text_results # {}
    /\ jobs["w1"].input # jobs["w2"].input
    /\ \E done \in records : "raw_ocr" \in DOMAIN done[2]

=============================================================================
